---- MODULE Spec2Model ----
(***************************************************************************)
(* Verification model of ashwam_monitor: the grounding matcher             *)
(* (invariants/evidence_checker.py), the invariant engine                  *)
(* (invariants/*.py) and the human review queue (human_loop/queue.py).     *)
(*                                                                         *)
(* Text is modelled as a sequence of one-character strings, so that        *)
(* lower(), strip(), split(), " ".join() and the substring test `in` are   *)
(* computed character by character as Python computes them.                *)
(* Rates are exact fractions <<numerator, denominator>>.                   *)
(***************************************************************************)
EXTENDS Integers, Sequences, FiniteSets, TLC

VARIABLES
    span, text, exists,          \* grounding matcher: inputs and returned value
    outputs, journals,           \* invariant engine: the snapshot set and the journal map
    checks, report,              \* what the three checks returned, and the InvariantReport
    items, now,                  \* review queue: ReviewQueue.items and the wall clock, in hours
    lastCall,                    \* the last queue call made since the clock advanced
    serialised, escalation,      \* whether the callers serialise the queue's mutations, and
                                 \* the escalate_aged_items call that is running
    arguments, result            \* a call of one of the analysis functions: its arguments
                                 \* and the value it returned

vars == <<span, text, exists, outputs, journals, checks, report, items, now, lastCall,
         serialised, escalation, arguments, result>>

matcherVars == <<span, text, exists>>
engineVars  == <<outputs, journals, checks, report>>
callVars    == <<serialised, escalation>>
analysisVars == <<arguments, result>>
queueVars   == <<items, now, lastCall, serialised, escalation>>

\* A variable that holds a returned value is << >> before the call and << v >>
\* once the call has returned v.
NoResult == << >>

Returned(v) == << v >>

(***************************************************************************)
(* Python str operations over sequences of characters                      *)
(***************************************************************************)

\* Letters that have an upper-case form in the model's alphabet: <<lower, upper>>.
CasePairs ==
    { <<"n", "N">>, <<"o", "O">>, <<"k", "K">>, <<"c", "C">>, <<"r", "R">>,
      <<"a", "A">>, <<"m", "M">>, <<"p", "P">>, <<"s", "S">>, <<"g", "G">> }

\* Characters str.strip() and str.split() treat as whitespace.
Whitespace == { " ", "\t" }

LowerOf == [ u \in { p[2] : p \in CasePairs } |-> (CHOOSE p \in CasePairs : p[2] = u)[1] ]

UpperOf == [ l \in { p[1] : p \in CasePairs } |-> (CHOOSE p \in CasePairs : p[1] = l)[2] ]

LowerChar(c) == IF c \in DOMAIN LowerOf THEN LowerOf[c] ELSE c

UpperChar(c) == IF c \in DOMAIN UpperOf THEN UpperOf[c] ELSE c

\* str.lower()
Lower(s) == [i \in 1..Len(s) |-> LowerChar(s[i])]

\* str.upper(), used only to build upper-case inputs
Upper(s) == [i \in 1..Len(s) |-> UpperChar(s[i])]

\* str.strip(): drop leading and trailing whitespace
Strip(s) ==
    LET keep == { i \in 1..Len(s) : s[i] \notin Whitespace }
    IN  IF keep = {} THEN << >>
        ELSE LET lo == CHOOSE i \in keep : \A j \in keep : i <= j
                 hi == CHOOSE i \in keep : \A j \in keep : i >= j
             IN  SubSeq(s, lo, hi)

\* str.split() with no argument: the maximal runs of non-whitespace characters
RECURSIVE SplitFrom(_, _, _)
SplitFrom(s, i, cur) ==
    IF i > Len(s)
    THEN IF cur = << >> THEN << >> ELSE << cur >>
    ELSE IF s[i] \in Whitespace
         THEN IF cur = << >>
              THEN SplitFrom(s, i + 1, << >>)
              ELSE << cur >> \o SplitFrom(s, i + 1, << >>)
         ELSE SplitFrom(s, i + 1, Append(cur, s[i]))

Split(s) == SplitFrom(s, 1, << >>)

\* sep.join(words)
RECURSIVE JoinWith(_, _)
JoinWith(sep, words) ==
    IF words = << >> THEN << >>
    ELSE IF Len(words) = 1 THEN words[1]
    ELSE words[1] \o sep \o JoinWith(sep, Tail(words))

\* " ".join(words)
Join(words) == JoinWith(<< " " >>, words)

\* a in b, for strings
IsSubstring(a, b) ==
    \E i \in 0..(Len(b) - Len(a)) : SubSeq(b, i + 1, i + Len(a)) = a

(***************************************************************************)
(* Grounding matcher: invariants/evidence_checker.py                       *)
(***************************************************************************)

\* Mutant of PartialMatch: the loop runs down to a one-word prefix, range(len(words), 0, -1).
RECURSIVE PartialMatchOneWord(_, _, _)
PartialMatchOneWord(words, i, lowered) ==
    IF i <= 0 THEN FALSE
    ELSE LET partial == Join(SubSeq(words, 1, i))
         IN  IF IsSubstring(partial, lowered) /\ Len(partial) > 5
             THEN TRUE
             ELSE PartialMatchOneWord(words, i - 1, lowered)

\* Mutant of PartialMatch: the loop stops before the two-word prefix, range(len(words), 2, -1).
RECURSIVE PartialMatchThreeWords(_, _, _)
PartialMatchThreeWords(words, i, lowered) ==
    IF i <= 2 THEN FALSE
    ELSE LET partial == Join(SubSeq(words, 1, i))
         IN  IF IsSubstring(partial, lowered) /\ Len(partial) > 5
             THEN TRUE
             ELSE PartialMatchThreeWords(words, i - 1, lowered)

\* for i in range(len(words), 1, -1): the loop body at index i and the rest of the loop
RECURSIVE PartialMatch(_, _, _)
PartialMatch(words, i, lowered) ==
    IF i <= 1 THEN FALSE
    ELSE LET partial == Join(SubSeq(words, 1, i))
         IN  IF IsSubstring(partial, lowered) /\ Len(partial) > 5
             THEN TRUE
             ELSE PartialMatch(words, i - 1, lowered)

check_evidence_exists(evidence_span, journal_text) ==
    LET evidence == Strip(Lower(evidence_span))
        lowered  == Lower(journal_text)
        words    == Split(evidence)
    IN  IF IsSubstring(evidence, lowered)
        THEN TRUE
        ELSE PartialMatch(words, Len(words), lowered)

(***************************************************************************)
(* Inputs of the grounding matcher                                         *)
(***************************************************************************)

\* Largest number of words in a span and in a journal text.
MaxSpanWords == 3
MaxTextWords == 2

W_no     == << "n", "o" >>
W_ok     == << "o", "k" >>
W_cramps == << "c", "r", "a", "m", "p", "s" >>

\* "no ok" is a two-word prefix of exactly 5 characters, "no cramps" one of 9,
\* and "cramps" a single word longer than 5 characters.
Vocab == { W_no, W_ok, W_cramps }

WordSeqs(n) == UNION { [1..k -> Vocab] : k \in 0..n }

Padded(pad, s) == IF pad THEN << " " >> \o s \o << " " >> ELSE s

Cased(caps, s) == IF caps THEN Upper(s) ELSE s

\* Spans: words separated by a space or a tab, optionally padded, optionally upper-case.
SpanInputs ==
    { Padded(pad, Cased(caps, JoinWith(sep, ws))) :
        ws \in WordSeqs(MaxSpanWords), sep \in { << " " >>, << "\t" >> },
        pad \in BOOLEAN, caps \in BOOLEAN }

\* Journal texts: words separated by a space or by ". ", optionally upper-case.
TextInputs ==
    { Cased(caps, JoinWith(sep, ws)) :
        ws \in WordSeqs(MaxTextWords), sep \in { << " " >>, << ".", " " >> },
        caps \in BOOLEAN }

\* No analysis function has been called.
AnalysisIdle == arguments = << >> /\ result = << >>

EngineIdle == outputs = << >> /\ journals = << >> /\ checks = NoResult /\ report = NoResult

\* One caller at a time, and no call of escalate_aged_items under way.
NoRunningCall == serialised = TRUE /\ escalation = << >>

QueueIdle == items = << >> /\ now = 0 /\ lastCall = << >> /\ NoRunningCall

MatcherIdle == span = << >> /\ text = << >> /\ exists = NoResult

MatcherInit ==
    /\ span \in SpanInputs
    /\ text \in TextInputs
    /\ exists = NoResult
    /\ EngineIdle
    /\ QueueIdle
    /\ AnalysisIdle

\* One call check_evidence_exists(span, text).
CheckEvidence ==
    /\ exists = NoResult
    /\ exists' = Returned(check_evidence_exists(span, text))
    /\ UNCHANGED << span, text, engineVars, queueVars, analysisVars >>

MatcherNext == CheckEvidence

SpecMatcher == MatcherInit /\ [][MatcherNext]_vars

(***************************************************************************)
(* Claims about the grounding matcher                                      *)
(***************************************************************************)

\* The span as the matcher compares it, the text as it compares it, and the
\* prefix made of the first k words of the span joined by single spaces.
Evidence    == Strip(Lower(span))
LoweredText == Lower(text)
SpanWords   == Split(Evidence)
Prefix(k)   == Join(SubSeq(SpanWords, 1, k))

\* C2: check_evidence_exists returns true exactly when the trimmed, lower-cased
\* span is a substring of the lower-cased text or some prefix of its first k
\* words, 2 <= k <= number of words, is longer than 5 characters and a substring;
\* a span of at most 5 characters that is no substring is rejected, and a
\* one-word prefix alone never makes the matcher accept.
C2_MatcherContract ==
    exists # NoResult =>
        /\ exists[1] = ( \/ IsSubstring(Evidence, LoweredText)
                      \/ \E k \in 2..Len(SpanWords) :
                            Len(Prefix(k)) > 5 /\ IsSubstring(Prefix(k), LoweredText) )
        /\ (Len(span) <= 5 /\ ~IsSubstring(Evidence, LoweredText)) => exists[1] = FALSE
        /\ ( /\ ~IsSubstring(Evidence, LoweredText)
             /\ \A k \in 2..Len(SpanWords) : ~IsSubstring(Prefix(k), LoweredText) )
           => exists[1] = FALSE

\* C2 witness: the matcher rejected a span whose first word alone, longer than 5
\* characters, is in the text.
C2_Witness ==
    /\ exists = Returned(FALSE)
    /\ Len(SpanWords) >= 2
    /\ Len(Prefix(1)) > 5
    /\ IsSubstring(Prefix(1), LoweredText)

\* C3 as stated: every span longer than 5 characters of which some prefix obtained
\* by dropping trailing words is a substring of the text is accepted.
C3_AsStated ==
    ( /\ exists # NoResult
      /\ Len(span) > 5
      /\ \E k \in 1..(Len(SpanWords) - 1) : IsSubstring(Prefix(k), LoweredText) )
    => exists[1] = TRUE

\* C3 amended: a span of which some prefix obtained by dropping trailing words
\* still has at least two words, is itself longer than 5 characters and is a
\* substring of the text is accepted, also when the full span is no substring.
C3_PrefixRescue ==
    ( /\ exists # NoResult
      /\ \E k \in 2..(Len(SpanWords) - 1) :
            Len(Prefix(k)) > 5 /\ IsSubstring(Prefix(k), LoweredText) )
    => exists[1] = TRUE

\* C3 witness: the full span is no substring of the text, a shorter prefix of two
\* words or more is, and the matcher accepted.
C3_Witness ==
    /\ exists = Returned(TRUE)
    /\ ~IsSubstring(Evidence, LoweredText)
    /\ \E k \in 2..(Len(SpanWords) - 1) :
          Len(Prefix(k)) > 5 /\ IsSubstring(Prefix(k), LoweredText)

(***************************************************************************)
(* Invariant engine: data model (models/inputs.py, models/enums.py)        *)
(*                                                                         *)
(* A ParserItem is a record of the fields the checks read: domain,         *)
(* evidence_span (characters), polarity, intensity_bucket, arousal_bucket  *)
(* and confidence (in hundredths: 80 is 0.80).  A ParserOutput is          *)
(* [journal_id, items].  journals is the dict journal_id -> text.          *)
(***************************************************************************)

\* Python None in an Optional[str] field.
Null == "None"

EMOTION == "emotion"
SYMPTOM == "symptom"
FOOD    == "food"
MIND    == "mind"

PRESENT == "present"
ABSENT  == "absent"

INFO     == "INFO"
WARNING  == "WARNING"
CRITICAL == "CRITICAL"

\* A rate num/den as an exact fraction; den > 0.
Rate(num, den) == << num, den >>

RateEq(r, q) == r[1] * q[2] = q[1] * r[2]

\* Mutant of RateLess: equal rates compare as less.
RateLessOrEqual(r, q) == r[1] * q[2] <= q[1] * r[2]

RateLess(r, q) == r[1] * q[2] < q[1] * r[2]

\* 1.0 - r
OneMinus(r) == Rate(r[2] - r[1], r[2])

\* journals.get(journal_id, "")
JournalText(js, journal_id) ==
    IF journal_id \in DOMAIN js THEN js[journal_id] ELSE << >>

\* for output in outputs: for idx, item in enumerate(output.items): the visited
\* (output position, journal_id, idx, item) in visiting order; idx counts from 0.
RECURSIVE FlatFrom(_, _)
FlatFrom(outs, o) ==
    IF o > Len(outs) THEN << >>
    ELSE [ i \in 1..Len(outs[o].items) |->
             [ output |-> o, journal_id |-> outs[o].journal_id,
               item_index |-> i - 1, item |-> outs[o].items[i] ] ]
         \o FlatFrom(outs, o + 1)

Flat(outs) == FlatFrom(outs, 1)

(***************************************************************************)
(* invariants/schema_checker.py                                            *)
(***************************************************************************)

\* Mutant of check_item_schema: the three checks form one if/elif chain, so an
\* item reports only the first rule it breaks.
check_item_schema_first_only(item) ==
    IF item.domain = EMOTION /\ item.arousal_bucket = Null
    THEN << "emotion item missing arousal_bucket" >>
    ELSE IF item.domain # EMOTION /\ item.intensity_bucket = Null
    THEN << item.domain \o " item missing intensity_bucket" >>
    ELSE IF item.confidence < 0 \/ item.confidence > 100
    THEN << "confidence out of range: " \o ToString(item.confidence) >>
    ELSE IF item.evidence_span = << >> \/ Strip(item.evidence_span) = << >>
    THEN << "empty evidence span" >>
    ELSE << >>

check_item_schema(item) ==
    LET bucket ==
            IF item.domain = EMOTION
            THEN IF item.arousal_bucket = Null
                 THEN << "emotion item missing arousal_bucket" >>
                 ELSE << >>
            ELSE IF item.intensity_bucket = Null
                 THEN << item.domain \o " item missing intensity_bucket" >>
                 ELSE << >>
        conf ==
            IF item.confidence < 0 \/ item.confidence > 100
            THEN << "confidence out of range: " \o ToString(item.confidence) >>
            ELSE << >>
        evid ==
            IF item.evidence_span = << >> \/ Strip(item.evidence_span) = << >>
            THEN << "empty evidence span" >>
            ELSE << >>
    IN  bucket \o conf \o evid

\* Returns [rate, violations].
compute_schema_validity(outs) ==
    LET flat == Flat(outs)
        bad(f) == check_item_schema(f.item) # << >>
        invalid == SelectSeq(flat, bad)
        violations ==
            [ k \in 1..Len(invalid) |->
                [ journal_id |-> invalid[k].journal_id,
                  item_index |-> invalid[k].item_index,
                  errors |-> check_item_schema(invalid[k].item) ] ]
        total_items == Len(flat)
        valid_items == Len(flat) - Len(violations)
    IN  [ rate |-> IF total_items > 0 THEN Rate(valid_items, total_items) ELSE Rate(1, 1),
          violations |-> violations ]

(***************************************************************************)
(* invariants/evidence_checker.py: find_hallucinations                     *)
(***************************************************************************)

\* The keys of a dict filled in the order of seq: each value once, by first occurrence.
DictKeys(seq) ==
    LET first(i) == \A j \in 1..(i - 1) : seq[j] # seq[i]
        firsts == SelectSeq([ i \in 1..Len(seq) |-> i ], first)
    IN  [ k \in 1..Len(firsts) |-> seq[firsts[k]] ]

\* Mutant of Counter: the first occurrence of a key is not counted.
CounterAfterFirst(seq) ==
    LET keys == DictKeys(seq)
    IN  [ k \in 1..Len(keys) |->
            << keys[k], Cardinality({ i \in 1..Len(seq) : seq[i] = keys[k] }) - 1 >> ]

\* Counter(seq) as the sequence of <<key, count>> in insertion order.
Counter(seq) ==
    LET keys == DictKeys(seq)
    IN  [ k \in 1..Len(keys) |->
            << keys[k], Cardinality({ i \in 1..Len(seq) : seq[i] = keys[k] }) >> ]

\* Mutant of IsHallucination: the span is looked up in every journal of the map
\* instead of the item's own journal.
IsHallucinationAnyJournal(f, js) ==
    \A j \in DOMAIN js : ~check_evidence_exists(f.item.evidence_span, js[j])

\* if not check_evidence_exists(item.evidence_span, journal_text), with
\* journal_text = journals.get(output.journal_id, "")
IsHallucination(f, js) ==
    ~check_evidence_exists(f.item.evidence_span, JournalText(js, f.journal_id))

\* Returns [rate, hallucinations, clustered].
find_hallucinations(outs, js) ==
    LET flat == Flat(outs)
        ungrounded(f) == IsHallucination(f, js)
        found == SelectSeq(flat, ungrounded)
        hallucinations ==
            [ k \in 1..Len(found) |->
                [ journal_id |-> found[k].journal_id,
                  item_index |-> found[k].item_index,
                  evidence_span |-> found[k].item.evidence_span,
                  domain |-> found[k].item.domain ] ]
        total_items == Len(flat)
    IN  [ rate |-> IF total_items > 0
                   THEN Rate(Len(hallucinations), total_items)
                   ELSE Rate(0, 1),
          hallucinations |-> hallucinations,
          clustered |-> Counter([ k \in 1..Len(hallucinations) |->
                                    hallucinations[k].evidence_span ]) ]

\* Returns [rate, hallucinations]: validity is 1.0 - hall_rate.
compute_evidence_validity(outs, js) ==
    LET found == find_hallucinations(outs, js)
    IN  [ rate |-> OneMinus(found.rate), hallucinations |-> found.hallucinations ]

(***************************************************************************)
(* invariants/contradiction_checker.py: find_contradictions                *)
(***************************************************************************)

\* span_key = item.evidence_span.lower().strip()
SpanKey(item) == Strip(Lower(item.evidence_span))

\* Mutant of HasConflict: every group of two items or more counts as a conflict.
HasConflictAnyGroup(group) == Len(group) >= 2

\* A group of span_map: skipped when it has fewer than 2 items, a conflict when
\* its items carry more than one polarity.
HasConflict(group) ==
    /\ Len(group) >= 2
    /\ Cardinality({ group[m].item.polarity : m \in 1..Len(group) }) > 1

\* The contradiction entries of one output, in the order of span_map's keys.
OutputContradictions(output) ==
    LET entries == [ i \in 1..Len(output.items) |->
                       [ index |-> i - 1, item |-> output.items[i] ] ]
        keys == DictKeys([ i \in 1..Len(entries) |-> SpanKey(entries[i].item) ])
        Group(key) == LET same(e) == SpanKey(e.item) = key
                      IN  SelectSeq(entries, same)
        conflict(key) == HasConflict(Group(key))
        hit == SelectSeq(keys, conflict)
        Conflicting(group) ==
            [ m \in 1..Len(group) |->
                [ index |-> group[m].index,
                  polarity |-> group[m].item.polarity,
                  confidence |-> group[m].item.confidence,
                  domain |-> group[m].item.domain ] ]
    IN  [ k \in 1..Len(hit) |->
            [ journal_id |-> output.journal_id,
              evidence_span |-> hit[k],
              conflicting_items |-> Conflicting(Group(hit[k])) ] ]

RECURSIVE ContradictionsFrom(_, _)
ContradictionsFrom(outs, o) ==
    IF o > Len(outs) THEN << >>
    ELSE OutputContradictions(outs[o]) \o ContradictionsFrom(outs, o + 1)

\* Returns [rate, contradictions].
find_contradictions(outs) ==
    LET contradictions == ContradictionsFrom(outs, 1)
        total_items == Len(Flat(outs))
    IN  [ rate |-> IF total_items > 0
                   THEN Rate(Len(contradictions), total_items)
                   ELSE Rate(0, 1),
          contradictions |-> contradictions ]

(***************************************************************************)
(* invariants/runner.py: run_invariant_checks, with config.py thresholds   *)
(***************************************************************************)

min_schema_validity    == Rate(95, 100)
min_evidence_validity  == Rate(90, 100)
max_hallucination_rate == Rate(5, 100)
max_contradiction_rate == Rate(1, 100)

\* An alert string, kept as the values it is formatted from.
Alert(level, kind, rate, sp, count) ==
    [ level |-> level, kind |-> kind, rate |-> rate, span |-> sp, count |-> count ]

\* InvariantViolation
Violation(journal_id, item_index, invariant_name, violation_type, details, severity) ==
    [ journal_id |-> journal_id, item_index |-> item_index,
      invariant_name |-> invariant_name, violation_type |-> violation_type,
      details |-> details, severity |-> severity ]

\* for c in contradictions: for item in c["conflicting_items"]: one violation each
RECURSIVE ContradictionViolations(_)
ContradictionViolations(contradictions) ==
    IF contradictions = << >> THEN << >>
    ELSE LET c == contradictions[1]
         IN  [ m \in 1..Len(c.conflicting_items) |->
                 Violation(c.journal_id, c.conflicting_items[m].index,
                           "contradiction", "polarity_conflict",
                           << "span '" >> \o c.evidence_span
                               \o << "' has conflicting polarity" >>,
                           CRITICAL) ]
             \o ContradictionViolations(Tail(contradictions))

\* What the four calls at the head of run_invariant_checks return.
invariant_checks(outs, js) ==
    [ schema   |-> compute_schema_validity(outs),
      evidence |-> compute_evidence_validity(outs, js),
      hall     |-> find_hallucinations(outs, js),
      contra   |-> find_contradictions(outs) ]

\* The InvariantReport run_invariant_checks builds from what the checks
\* returned; run_id and timestamp are left out.
InvariantReport(outs, returned) ==
    LET schema   == returned.schema
        evidence == returned.evidence
        hall     == returned.hall
        contra   == returned.contra
        RECURSIVE TotalItems(_)
        TotalItems(o) == IF o > Len(outs) THEN 0
                         ELSE Len(outs[o].items) + TotalItems(o + 1)
        schemaViolations ==
            [ k \in 1..Len(schema.violations) |->
                Violation(schema.violations[k].journal_id,
                          schema.violations[k].item_index,
                          "schema_validity", "schema_error",
                          JoinWith(<< "; " >>,
                                   [ e \in 1..Len(schema.violations[k].errors) |->
                                       << schema.violations[k].errors[e] >> ]),
                          WARNING) ]
        hallViolations ==
            [ k \in 1..Len(hall.hallucinations) |->
                Violation(hall.hallucinations[k].journal_id,
                          hall.hallucinations[k].item_index,
                          "hallucination", "evidence_not_found",
                          << "span '" >> \o hall.hallucinations[k].evidence_span
                              \o << "' not in source" >>,
                          CRITICAL) ]
        systematic == LET many(c) == c[2] > 1 IN SelectSeq(hall.clustered, many)
        alerts ==
            (IF RateLess(schema.rate, min_schema_validity)
             THEN << Alert(CRITICAL, "schema validity", schema.rate, << >>, 0) >>
             ELSE << >>)
            \o (IF RateLess(max_hallucination_rate, hall.rate)
                THEN << Alert(CRITICAL, "hallucination rate", hall.rate, << >>, 0) >>
                ELSE << >>)
            \o (IF RateLess(max_contradiction_rate, contra.rate)
                THEN << Alert(CRITICAL, "contradiction rate", contra.rate, << >>, 0) >>
                ELSE << >>)
            \o [ k \in 1..Len(systematic) |->
                   Alert(WARNING, "systematic hallucination", Rate(0, 1),
                         systematic[k][1], systematic[k][2]) ]
    IN  [ total_items |-> TotalItems(1),
          total_journals |-> Len(outs),
          schema_validity_rate |-> schema.rate,
          evidence_validity_rate |-> evidence.rate,
          hallucination_rate |-> hall.rate,
          contradiction_rate |-> contra.rate,
          violations |-> schemaViolations \o hallViolations
                             \o ContradictionViolations(contra.contradictions),
          alerts |-> alerts,
          thresholds_used |->
              [ min_schema_validity |-> min_schema_validity,
                min_evidence_validity |-> min_evidence_validity,
                max_hallucination_rate |-> max_hallucination_rate,
                max_contradiction_rate |-> max_contradiction_rate ] ]

run_invariant_checks(outs, js) == InvariantReport(outs, invariant_checks(outs, js))

(***************************************************************************)
(* Inputs of the invariant engine                                          *)
(***************************************************************************)

\* Largest number of ParserOutputs in a snapshot set, and of items in all of them.
MaxOutputs    == 2
MaxTotalItems == 3

ParserItem(domain, sp, polarity, intensity_bucket, arousal_bucket, confidence) ==
    [ domain |-> domain, evidence_span |-> sp, polarity |-> polarity,
      intensity_bucket |-> intensity_bucket, arousal_bucket |-> arousal_bucket,
      confidence |-> confidence ]

\* journals.jsonl: J1 is "No cramps. ok", J2 is "ok cramps"; J9 has no entry.
JournalMap ==
    [ j \in { "J1", "J2" } |->
        IF j = "J1"
        THEN << "N", "o", " " >> \o W_cramps \o << ".", " " >> \o W_ok
        ELSE W_ok \o << " " >> \o W_cramps ]

S_No_cramps    == << "N", "o", " " >> \o W_cramps
S_no_cramps_sp == W_no \o << " " >> \o W_cramps \o << " " >>
S_no_cramps_no == W_no \o << " " >> \o W_cramps \o << " " >> \o W_no
S_ok_cramps    == W_ok \o << " " >> \o W_cramps
S_blank        == << " " >>

\* Items that differ in their evidence span: grounded in J1 by its two-word
\* prefix only, grounded in J2 only, and whitespace-only.
GroundingItems ==
    { ParserItem(SYMPTOM, sp, PRESENT, "low", Null, 80) :
        sp \in { S_no_cramps_no, S_ok_cramps, S_blank } }

\* Items that differ in span and polarity: two spellings of one normalised
\* span with opposite polarity, and another span.
PolarityItems ==
    { ParserItem(SYMPTOM, S_No_cramps, ABSENT, "low", Null, 85),
      ParserItem(SYMPTOM, S_no_cramps_sp, PRESENT, "low", Null, 40),
      ParserItem(SYMPTOM, W_ok, PRESENT, "low", Null, 85) }

\* Items that differ in what the schema check reads.
SchemaItems ==
    { ParserItem(EMOTION, W_ok, PRESENT, Null, "high", 80),
      ParserItem(EMOTION, W_ok, PRESENT, "low", Null, 80),
      ParserItem(SYMPTOM, W_ok, PRESENT, Null, "high", 80),
      ParserItem(FOOD, W_ok, PRESENT, "low", Null, 100),
      ParserItem(MIND, S_blank, PRESENT, "unknown", Null, 150),
      ParserItem(EMOTION, << >>, ABSENT, Null, Null, -10) }

Catalogues ==
    { [ items |-> GroundingItems, journal_ids |-> { "J1", "J2", "J9" } ],
      [ items |-> PolarityItems, journal_ids |-> { "J1", "J2" } ],
      [ items |-> SchemaItems, journal_ids |-> { "J1" } ] }

\* The number of items in the first o outputs, when output i holds sizes[i] items.
RECURSIVE SizeSum(_, _)
SizeSum(sizes, o) == IF o = 0 THEN 0 ELSE sizes[o] + SizeSum(sizes, o - 1)

\* The snapshot set of k outputs in which output o has journal id ids[o] and the
\* next sizes[o] items of all.
SnapshotOf(k, ids, sizes, all) ==
    [ o \in 1..k |->
        [ journal_id |-> ids[o],
          items |-> SubSeq(all, SizeSum(sizes, o - 1) + 1, SizeSum(sizes, o)) ] ]

\* Every snapshot set of at most MaxOutputs outputs and MaxTotalItems items, its
\* items drawn from one catalogue.
EngineInit ==
    /\ \E cat \in Catalogues, k \in 0..MaxOutputs :
          \E sizes \in [1..k -> 0..MaxTotalItems] :
              /\ SizeSum(sizes, k) <= MaxTotalItems
              /\ \E ids \in [1..k -> cat.journal_ids],
                    all \in [1..SizeSum(sizes, k) -> cat.items] :
                    outputs = SnapshotOf(k, ids, sizes, all)
    /\ journals = JournalMap
    /\ checks = NoResult
    /\ report = NoResult
    /\ MatcherIdle
    /\ AnalysisIdle
    /\ QueueIdle

\* One call run_invariant_checks(outputs, journals).
RunInvariantChecks ==
    /\ report = NoResult
    /\ checks' = Returned(invariant_checks(outputs, journals))
    /\ report' = Returned(InvariantReport(outputs, checks'[1]))
    /\ UNCHANGED << outputs, journals, matcherVars, queueVars, analysisVars >>

EngineNext == RunInvariantChecks

SpecEngine == EngineInit /\ [][EngineNext]_vars

(***************************************************************************)
(* Claims about the invariant engine                                       *)
(***************************************************************************)

\* The visited items of the snapshot set, and what the run returned.
Visited  == Flat(outputs)
TheReport == report[1]
TheChecks == checks[1]

\* Grounding as section 4.1 states it: the trimmed, lower-cased span is in the
\* lower-cased text, or a prefix of two words or more, longer than 5 characters, is.
Grounded(sp, txt) ==
    LET e == Strip(Lower(sp))
        w == Split(e)
    IN  \/ IsSubstring(e, Lower(txt))
        \/ \E k \in 2..Len(w) :
              /\ Len(Join(SubSeq(w, 1, k))) > 5
              /\ IsSubstring(Join(SubSeq(w, 1, k)), Lower(txt))

\* The positions in Visited of the items not grounded in their own journal.
Ungrounded ==
    { k \in 1..Len(Visited) :
        ~Grounded(Visited[k].item.evidence_span,
                  JournalText(journals, Visited[k].journal_id)) }

ViolationsOfType(t) ==
    LET is(v) == v.violation_type = t IN SelectSeq(TheReport.violations, is)

\* C1: hallucination_rate is (items not grounded in their own journal) / (items),
\* 0 for no items; evidence_validity_rate is the complement; and the report holds
\* one CRITICAL evidence_not_found violation per ungrounded item, in visiting
\* order, and none for a grounded item.
C1_HallucinationReport ==
    report # NoResult =>
        LET found == ViolationsOfType("evidence_not_found")
            bad(f) == ~Grounded(f.item.evidence_span, JournalText(journals, f.journal_id))
            expected == SelectSeq(Visited, bad)
        IN  /\ RateEq(TheReport.hallucination_rate,
                      IF Len(Visited) > 0
                      THEN Rate(Cardinality(Ungrounded), Len(Visited))
                      ELSE Rate(0, 1))
            /\ RateEq(TheReport.evidence_validity_rate,
                      IF Len(Visited) > 0
                      THEN Rate(Len(Visited) - Cardinality(Ungrounded), Len(Visited))
                      ELSE Rate(1, 1))
            /\ Len(found) = Len(expected)
            /\ \A k \in 1..Len(found) :
                  /\ found[k].journal_id = expected[k].journal_id
                  /\ found[k].item_index = expected[k].item_index
                  /\ found[k].severity = CRITICAL
                  /\ found[k].invariant_name = "hallucination"

\* C1 witness: two items, one of them ungrounded: rate 0.5 and one violation.
C1_Witness ==
    /\ report # NoResult
    /\ Len(Visited) = 2
    /\ Cardinality(Ungrounded) = 1
    /\ RateEq(TheReport.hallucination_rate, Rate(1, 2))
    /\ Len(ViolationsOfType("evidence_not_found")) = 1

\* C4 as stated: every item of an output whose journal_id has no entry in the
\* journal map is reported as a hallucination, whatever its evidence span.
C4_MissingJournalAlwaysHallucination ==
    report # NoResult =>
        \A k \in 1..Len(Visited) :
            Visited[k].journal_id \notin DOMAIN journals =>
                \E h \in 1..Len(TheChecks.hall.hallucinations) :
                    /\ TheChecks.hall.hallucinations[h].journal_id = Visited[k].journal_id
                    /\ TheChecks.hall.hallucinations[h].item_index = Visited[k].item_index
                    /\ TheChecks.hall.hallucinations[h].evidence_span
                           = Visited[k].item.evidence_span

\* The normalised spans and the journal ids of the snapshot set.
NormalisedSpans == { Strip(Lower(Visited[k].item.evidence_span)) : k \in 1..Len(Visited) }
JournalIds == { outputs[o].journal_id : o \in 1..Len(outputs) }

\* The items (counted from 1) of output o whose normalised span is s.
Members(o, s) ==
    { i \in 1..Len(outputs[o].items) :
        Strip(Lower(outputs[o].items[i].evidence_span)) = s }

PolaritiesOf(o, s) == { outputs[o].items[i].polarity : i \in Members(o, s) }

\* C5: for each journal id and normalised span, the contradiction entries are, in
\* order, one per output of that journal in which the items sharing the span
\* carry more than one polarity; the entry lists every member of that output's
\* group once and no item of another output; a group whose members agree has no
\* entry.
C5_ContradictionGroups ==
    report # NoResult =>
        LET all == TheChecks.contra.contradictions
        IN  /\ \A e \in 1..Len(all) :
                  all[e].journal_id \in JournalIds /\ all[e].evidence_span \in NormalisedSpans
            /\ \A j \in JournalIds, s \in NormalisedSpans :
                  LET mine(e) == e.journal_id = j /\ e.evidence_span = s
                      entries == SelectSeq(all, mine)
                      split(o) == outputs[o].journal_id = j
                                     /\ Cardinality(PolaritiesOf(o, s)) > 1
                      where == SelectSeq([ o \in 1..Len(outputs) |-> o ], split)
                  IN  /\ Len(entries) = Len(where)
                      /\ \A m \in 1..Len(entries) :
                            LET listed == entries[m].conflicting_items
                            IN  /\ Len(listed) = Cardinality(Members(where[m], s))
                                /\ { listed[x].index + 1 : x \in 1..Len(listed) }
                                       = Members(where[m], s)

\* C5 witness: an entry for one output, while another output holds an item with
\* the same normalised span that the entry does not list.
C5_Witness ==
    /\ report # NoResult
    /\ \E e \in 1..Len(TheChecks.contra.contradictions) :
          LET c == TheChecks.contra.contradictions[e]
          IN  /\ Len(c.conflicting_items) = 2
              /\ \E o \in 1..Len(outputs) :
                    /\ outputs[o].journal_id # c.journal_id
                    /\ Members(o, c.evidence_span) # {}

\* The rules of the schema check an item breaks, as the error each one reports.
BrokenRules(item) ==
    { r \in { "emotion item missing arousal_bucket",
              item.domain \o " item missing intensity_bucket",
              "confidence out of range: " \o ToString(item.confidence),
              "empty evidence span" } :
        \/ r = "emotion item missing arousal_bucket"
              /\ item.domain = EMOTION /\ item.arousal_bucket = Null
        \/ r = item.domain \o " item missing intensity_bucket"
              /\ item.domain # EMOTION /\ item.intensity_bucket = Null
        \/ r = "confidence out of range: " \o ToString(item.confidence)
              /\ ~(0 <= item.confidence /\ item.confidence <= 100)
        \/ r = "empty evidence span"
              /\ \A i \in 1..Len(item.evidence_span) : item.evidence_span[i] \in Whitespace }

\* C6: the schema check returns one entry per item that breaks a rule, in visiting
\* order, carrying each broken rule once; schema_validity_rate is (items breaking
\* no rule) / (items), 1 for no items; the report holds one WARNING schema_error
\* violation per entry; an emotion item that only lacks its arousal bucket has
\* exactly one error.
C6_SchemaCheck ==
    report # NoResult =>
        LET invalid(f) == BrokenRules(f.item) # {}
            expected == SelectSeq(Visited, invalid)
            got == TheChecks.schema.violations
            reported == ViolationsOfType("schema_error")
        IN  /\ Len(got) = Len(expected)
            /\ \A k \in 1..Len(got) :
                  /\ got[k].journal_id = expected[k].journal_id
                  /\ got[k].item_index = expected[k].item_index
                  /\ Len(got[k].errors) = Cardinality(BrokenRules(expected[k].item))
                  /\ { got[k].errors[e] : e \in 1..Len(got[k].errors) }
                         = BrokenRules(expected[k].item)
                  /\ ( /\ expected[k].item.domain = EMOTION
                       /\ expected[k].item.arousal_bucket = Null
                       /\ expected[k].item.confidence \in 0..100
                       /\ Strip(expected[k].item.evidence_span) # << >> )
                     => got[k].errors = << "emotion item missing arousal_bucket" >>
            /\ RateEq(TheReport.schema_validity_rate,
                      IF Len(Visited) > 0
                      THEN Rate(Len(Visited) - Len(expected), Len(Visited))
                      ELSE Rate(1, 1))
            /\ Len(reported) = Len(expected)
            /\ \A k \in 1..Len(reported) :
                  /\ reported[k].journal_id = expected[k].journal_id
                  /\ reported[k].item_index = expected[k].item_index
                  /\ reported[k].severity = WARNING
                  /\ Len(reported[k].details) = 2 * Len(got[k].errors) - 1

\* C6 witness: an item breaking three rules is one entry with three errors, beside
\* a valid item: rate 1/2.
C6_Witness ==
    /\ report # NoResult
    /\ Len(Visited) = 2
    /\ Len(TheChecks.schema.violations) = 1
    /\ Len(TheChecks.schema.violations[1].errors) = 3
    /\ RateEq(TheReport.schema_validity_rate, Rate(1, 2))

(***************************************************************************)
(* Review queue: human_loop/queue.py, with config.py HumanReviewConfig     *)
(*                                                                         *)
(* A ReviewItem is a record of the fields the queue reads or writes: id,   *)
(* severity, confidence (in hundredths), created_at (in hours), state and  *)
(* notes.  An item is identified by its position in ReviewQueue.items, as  *)
(* the Python object is by reference; calls return positions.  The clock   *)
(* does not advance during a call.                                         *)
(***************************************************************************)

PENDING   == "pending"
IN_REVIEW == "in_review"
APPROVED  == "approved"
REJECTED  == "rejected"
ESCALATED == "escalated"

\* HumanReviewConfig.max_daily_reviews is 30 by default; the model runs with a
\* smaller configured value.
max_daily_reviews == 2

escalation_timeout_hours == 24
critical_weight == 100
warning_weight  == 50
info_weight     == 10

Min(a, b) == IF a <= b THEN a ELSE b

\* age_hours = (datetime.now() - item.created_at).total_seconds() / 3600
AgeHours(item) == now - item.created_at

\* Mutant of get_priority_score: the age factor falls with age, from 2.0 to 1.0.
get_priority_score_fresh_first(item) ==
    LET severity_weight ==
            CASE item.severity = CRITICAL -> critical_weight
              [] item.severity = WARNING  -> warning_weight
              [] item.severity = INFO     -> info_weight
              [] OTHER                    -> 10
    IN  severity_weight * (48 - Min(24, AgeHours(item))) * (100 - item.confidence)

\* severity_weight * age_factor * conf_factor, times 2400 to stay in the integers:
\* age_factor = min(2.0, 1.0 + age_hours / 24) is min(48, 24 + age_hours) / 24,
\* conf_factor = 1.0 - confidence is (100 - confidence) / 100.
get_priority_score(item) ==
    LET severity_weight ==
            CASE item.severity = CRITICAL -> critical_weight
              [] item.severity = WARNING  -> warning_weight
              [] item.severity = INFO     -> info_weight
              [] OTHER                    -> 10
    IN  severity_weight * Min(48, 24 + AgeHours(item)) * (100 - item.confidence)

\* The positions of the pending items, in list order.
get_pending ==
    LET pending(i) == items[i].state = PENDING
    IN  SelectSeq([ i \in 1..Len(items) |-> i ], pending)

\* Mutant of Before: ascending order, sorted() without reverse=True.
BeforeAscending(i, j) ==
    get_priority_score(items[i]) < get_priority_score(items[j])

\* Whether the item at position i goes before the one at position j in
\* sorted(pending, key=self.get_priority_score, reverse=True).
Before(i, j) ==
    get_priority_score(items[i]) > get_priority_score(items[j])

\* sorted(...) is stable: x is placed after every element it does not go before.
RECURSIVE InsertSorted(_, _)
InsertSorted(sorted, x) ==
    IF sorted = << >> THEN << x >>
    ELSE IF Before(x, sorted[1])
         THEN << x >> \o sorted
         ELSE << sorted[1] >> \o InsertSorted(Tail(sorted), x)

RECURSIVE Sorted(_)
Sorted(seq) ==
    IF seq = << >> THEN << >>
    ELSE InsertSorted(Sorted(SubSeq(seq, 1, Len(seq) - 1)), seq[Len(seq)])

\* sorted_items[:self.cfg.max_daily_reviews]
get_daily_batch ==
    LET sorted_items == Sorted(get_pending)
    IN  SubSeq(sorted_items, 1, Min(Len(sorted_items), max_daily_reviews))

\* Mutant of get_critical_items: the daily limit is applied to the critical items.
get_critical_items_capped ==
    LET critical(i) == items[i].severity = CRITICAL /\ items[i].state = PENDING
        found == SelectSeq([ i \in 1..Len(items) |-> i ], critical)
    IN  SubSeq(found, 1, Min(Len(found), max_daily_reviews))

get_critical_items ==
    LET critical(i) == items[i].severity = CRITICAL /\ items[i].state = PENDING
    IN  SelectSeq([ i \in 1..Len(items) |-> i ], critical)

\* What a call leaves in lastCall: the operation, its arguments, what it
\* returned, and the state the item mark_reviewed wrote to was in before.
Call(op, item_id, approved, returned, was) ==
    << [ op |-> op, item_id |-> item_id, approved |-> approved,
         returned |-> returned, was |-> was ] >>

\* Largest number of queued items, the hours the clock advances by, and the last hour.
MaxQueue  == 3
TickHours == 12
MaxClock  == 36

\* The ReviewItems the callers add: id, severity, confidence.
NewItems ==
    { << "a", CRITICAL, 75 >>, << "a", WARNING, 50 >>,
      << "b", CRITICAL, 50 >>, << "b", INFO, 50 >> }

\* The ids mark_reviewed is called with; "z" is carried by no item.
ItemIds == { "a", "b", "z" }

QueueInit ==
    /\ items = << >>
    /\ now = 0
    /\ lastCall = << >>
    /\ NoRunningCall
    /\ MatcherIdle
    /\ AnalysisIdle
    /\ EngineIdle

\* Time passes.
Tick ==
    /\ now + TickHours <= MaxClock
    /\ now' = now + TickHours
    /\ lastCall' = << >>
    /\ UNCHANGED << items, callVars, matcherVars, engineVars, analysisVars >>

\* queue.add(ReviewItem(id, severity, confidence)): created now, PENDING, no notes.
Add(new) ==
    /\ Len(items) < MaxQueue
    /\ items' = Append(items, [ id |-> new[1], severity |-> new[2], confidence |-> new[3],
                                created_at |-> now, state |-> PENDING, notes |-> "" ])
    /\ lastCall' = Call("add", new[1], FALSE, << >>, "")
    /\ UNCHANGED << now, callVars, matcherVars, engineVars, analysisVars >>

\* Mutant of Escalates: the PENDING test is missing.
EscalatesAnyState(item) == AgeHours(item) > escalation_timeout_hours

\* Mutant of Escalates: an item exactly as old as the timeout is escalated too.
EscalatesAtTimeout(item) ==
    /\ item.state = PENDING
    /\ AgeHours(item) >= escalation_timeout_hours

\* Mutant of Escalates: the test is that the item is not ESCALATED yet.
EscalatesNotYetEscalated(item) ==
    /\ item.state # ESCALATED
    /\ AgeHours(item) > escalation_timeout_hours

\* Whether escalate_aged_items writes ESCALATED to the item.
Escalates(item) ==
    /\ item.state = PENDING
    /\ AgeHours(item) > escalation_timeout_hours

\* queue.escalate_aged_items(): returns the escalated items.
EscalateAgedItems ==
    LET aged(i) == Escalates(items[i])
        escalated == SelectSeq([ i \in 1..Len(items) |-> i ], aged)
    IN  /\ items' = [ i \in 1..Len(items) |->
                        IF Escalates(items[i])
                        THEN [ items[i] EXCEPT !.state = ESCALATED ]
                        ELSE items[i] ]
        /\ lastCall' = Call("escalate_aged_items", "", FALSE, escalated, "")
        /\ UNCHANGED << now, callVars, matcherVars, engineVars, analysisVars >>

\* Mutant of ReviewedState: a rejected item is sent back to the pending items.
ReviewedStateRequeue(approved) == IF approved THEN APPROVED ELSE PENDING

\* ReviewState.APPROVED if approved else ReviewState.REJECTED
ReviewedState(approved) == IF approved THEN APPROVED ELSE REJECTED

\* Mutant of MarkReviewed: every item that carries item_id is written to.
MarkReviewedEvery(item_id, approved, notes) ==
    LET carriers == { i \in 1..Len(items) : items[i].id = item_id }
    IN  /\ items' = [ i \in 1..Len(items) |->
                        IF i \in carriers
                        THEN [ items[i] EXCEPT !.state = ReviewedState(approved),
                                               !.notes = notes ]
                        ELSE items[i] ]
        /\ lastCall' = Call("mark_reviewed", item_id, approved, << carriers # {} >>, "")
        /\ UNCHANGED << now, callVars, matcherVars, engineVars, analysisVars >>

\* queue.mark_reviewed(item_id, approved, notes): writes to the first item that
\* carries item_id and returns True, or returns False.
MarkReviewed(item_id, approved, notes) ==
    LET carriers == { i \in 1..Len(items) : items[i].id = item_id }
    IN  /\ IF carriers = {}
           THEN /\ items' = items
                /\ lastCall' = Call("mark_reviewed", item_id, approved, << FALSE >>, "")
           ELSE LET first == CHOOSE i \in carriers : \A j \in carriers : i <= j
                IN  /\ items' = [ items EXCEPT ![first].state = ReviewedState(approved),
                                               ![first].notes = notes ]
                    /\ lastCall' = Call("mark_reviewed", item_id, approved, << TRUE >>,
                                        items[first].state)
        /\ UNCHANGED << now, callVars, matcherVars, engineVars, analysisVars >>

QueueNext ==
    \/ Tick
    \/ \E new \in NewItems : Add(new)
    \/ EscalateAgedItems
    \/ \E item_id \in ItemIds, approved \in BOOLEAN : MarkReviewed(item_id, approved, "ok")

SpecQueue == QueueInit /\ [][QueueNext]_vars

(***************************************************************************)
(* Claims about the review queue                                           *)
(***************************************************************************)

Terminal == { APPROVED, REJECTED, ESCALATED }

LastOp == IF lastCall = << >> THEN "" ELSE lastCall[1].op

\* C7: no step of add, mark_reviewed or escalate_aged_items puts an item that has
\* left PENDING back to PENDING.
C7_NeverBackToPending ==
    [][ \A i \in 1..Len(items) :
            items[i].state # PENDING =>
                i <= Len(items') /\ items'[i].state # PENDING ]_vars

\* C7 witness: mark_reviewed has just written to an item that was ESCALATED.
C7_Witness ==
    /\ LastOp = "mark_reviewed"
    /\ lastCall[1].returned = << TRUE >>
    /\ lastCall[1].was = ESCALATED

PendingPositions == { i \in 1..Len(items) : items[i].state = PENDING }

\* C9: get_daily_batch returns min(pending, max_daily_reviews) distinct items, all
\* PENDING, in non-increasing order of priority score, and no pending item left
\* out scores strictly higher than a returned one.
C9_DailyBatch ==
    LET batch == get_daily_batch
        inBatch == { batch[k] : k \in 1..Len(batch) }
    IN  /\ Len(batch) = Min(Cardinality(PendingPositions), max_daily_reviews)
        /\ Cardinality(inBatch) = Len(batch)
        /\ inBatch \subseteq PendingPositions
        /\ \A k \in 1..(Len(batch) - 1) :
              get_priority_score(items[batch[k]]) >= get_priority_score(items[batch[k + 1]])
        /\ \A p \in PendingPositions \ inBatch, b \in inBatch :
              get_priority_score(items[p]) <= get_priority_score(items[b])

\* C9 witness: three pending items of three different scores, two of them returned.
C9_Witness ==
    /\ Cardinality(PendingPositions) = 3
    /\ Cardinality({ get_priority_score(items[i]) : i \in PendingPositions }) = 3
    /\ Len(get_daily_batch) = 2

CriticalPending ==
    { i \in 1..Len(items) : items[i].severity = CRITICAL /\ items[i].state = PENDING }

\* C10: get_critical_items returns every item that is CRITICAL and PENDING, each
\* once, and nothing else, also when they are more than max_daily_reviews.
C10_CriticalItems ==
    LET found == get_critical_items
    IN  /\ { found[k] : k \in 1..Len(found) } = CriticalPending
        /\ Len(found) = Cardinality(CriticalPending)

\* C10 witness: more critical pending items than max_daily_reviews, all returned.
C10_Witness ==
    /\ Cardinality(CriticalPending) > max_daily_reviews
    /\ Len(get_critical_items) = Cardinality(CriticalPending)

Aged(item) == item.created_at + escalation_timeout_hours < now

\* C11: a call of escalate_aged_items moves every item that is PENDING and strictly
\* older than escalation_timeout_hours to ESCALATED, returns exactly those items,
\* leaves every other item unchanged, and leaves no PENDING item older than the
\* timeout.
C11_EscalateAgedItems ==
    [][ (lastCall' # << >> /\ lastCall'[1].op = "escalate_aged_items") =>
            LET due == { i \in 1..Len(items) : items[i].state = PENDING /\ Aged(items[i]) }
                returned == lastCall'[1].returned
            IN  /\ now' = now
                /\ Len(items') = Len(items)
                /\ \A i \in due : items'[i] = [ items[i] EXCEPT !.state = ESCALATED ]
                /\ \A i \in (1..Len(items)) \ due : items'[i] = items[i]
                /\ { returned[k] : k \in 1..Len(returned) } = due
                /\ Len(returned) = Cardinality(due)
                /\ \A i \in 1..Len(items') :
                      items'[i].state = PENDING => ~ Aged(items'[i]) ]_vars

\* C11 witness: escalate_aged_items has just escalated an item and left PENDING an
\* item that is exactly as old as the timeout.
C11_Witness ==
    /\ LastOp = "escalate_aged_items"
    /\ lastCall[1].returned # << >>
    /\ \E i \in 1..Len(items) :
          /\ items[i].state = PENDING
          /\ AgeHours(items[i]) = escalation_timeout_hours

(***************************************************************************)
(* Daily review rounds: the callers of ReviewQueue.get_daily_batch         *)
(*                                                                         *)
(* A review round is: items arrive (add), the reviewer takes the batch     *)
(* (get_daily_batch) and reviews every item of it (mark_reviewed with the  *)
(* item's id), and time passes.  Item ids are unique, as the uuid ids of   *)
(* build_review_queue_from_invariants are.  To keep the rounds finite in   *)
(* number of states, time is kept relative to now, an age is kept at no    *)
(* more than the 24 hours beyond which min(2.0, 1.0 + age_hours / 24) no   *)
(* longer grows, and the items that are no longer PENDING, which           *)
(* get_daily_batch does not read, are forgotten when the round ends.       *)
(***************************************************************************)

\* age_factor = min(2.0, 1.0 + age_hours / 24) is 2.0 from this age on.
age_factor_cap_hours == 24

\* The id of the item that is followed through the rounds.
TrackedId == "t"

\* The ids of the other items.
StreamIds == { "a", "b", "c" }

\* Severity and confidence of the items: scores 10 x 50, 50 x 50, 100 x 25, 100 x 50
\* before the age factor.
StreamKinds ==
    { << INFO, 50 >>, << WARNING, 50 >>, << CRITICAL, 75 >>, << CRITICAL, 50 >> }

ReviewItem(id, kind, created_at) ==
    [ id |-> id, severity |-> kind[1], confidence |-> kind[2],
      created_at |-> created_at, state |-> PENDING, notes |-> "" ]

\* items after mark_reviewed(item.id, approved, "ok") has been called for each item of
\* the batch: each call writes to the first item that carries the id.
ReviewAll(its, ids, approved) ==
    LET called(i) == \E k \in 1..Len(ids) : ids[k] = its[i].id
        first(i) == \A j \in 1..(i - 1) : its[j].id # its[i].id
    IN  [ i \in 1..Len(its) |->
            IF called(i) /\ first(i)
            THEN [ its[i] EXCEPT !.state = ReviewedState(approved), !.notes = "ok" ]
            ELSE its[i] ]

\* The queue holds the tracked item, behind up to MaxQueue - 1 items added before it.
DailyInit ==
    /\ \E tracked \in StreamKinds, n \in 0..(MaxQueue - 1) :
         \E earlier \in [ 1..n -> StreamIds \X StreamKinds ] :
            /\ \A i, j \in 1..n : i # j => earlier[i][1] # earlier[j][1]
            /\ items = [ i \in 1..n |-> ReviewItem(earlier[i][1], earlier[i][2], 0) ]
                       \o << ReviewItem(TrackedId, tracked, 0) >>
    /\ now = 0
    /\ lastCall = << >>
    /\ NoRunningCall
    /\ MatcherIdle
    /\ AnalysisIdle
    /\ EngineIdle

\* queue.add(ReviewItem(id, severity, confidence)) with an id that is not in use.
Arrive(id, kind) ==
    /\ LastOp # "get_daily_batch"
    /\ Len(items) < MaxQueue
    /\ \A i \in 1..Len(items) : items[i].id # id
    /\ items' = Append(items, ReviewItem(id, kind, now))
    /\ lastCall' = Call("add", id, FALSE, << >>, "")
    /\ UNCHANGED << now, callVars, matcherVars, engineVars, analysisVars >>

\* batch = queue.get_daily_batch(); for item in batch: queue.mark_reviewed(item.id, approved)
ReviewDailyBatch ==
    /\ LastOp # "get_daily_batch"
    /\ \E approved \in BOOLEAN, batch \in { get_daily_batch } :
         LET ids == [ k \in 1..Len(batch) |-> items[batch[k]].id ]
         IN  /\ items' = ReviewAll(items, ids, approved)
             /\ lastCall' = Call("get_daily_batch", "", approved, batch, "")
    /\ UNCHANGED << now, callVars, matcherVars, engineVars, analysisVars >>

\* TickHours pass: every pending item is TickHours older, up to age_factor_cap_hours.
NextRound ==
    /\ LastOp = "get_daily_batch"
    /\ LET pending(item) == item.state = PENDING
           older(item) ==
               [ item EXCEPT !.created_at =
                     IF now - (@ - TickHours) >= age_factor_cap_hours
                     THEN now - age_factor_cap_hours
                     ELSE @ - TickHours ]
           kept == SelectSeq(items, pending)
       IN  items' = [ i \in 1..Len(kept) |-> older(kept[i]) ]
    /\ lastCall' = << >>
    /\ UNCHANGED << now, callVars, matcherVars, engineVars, analysisVars >>

DailyNext ==
    \/ \E id \in StreamIds, kind \in StreamKinds : Arrive(id, kind)
    \/ ReviewDailyBatch
    \/ NextRound

\* Every round is completed: time passes once the batch has been reviewed, and the
\* batch is taken and reviewed again and again.  ReviewDailyBatch is enabled whenever
\* the last call is not its own, so the last conjunct is WF_vars(ReviewDailyBatch).
SpecDaily ==
    /\ DailyInit
    /\ [][DailyNext]_vars
    /\ WF_vars(NextRound)
    /\ []<>(LastOp = "get_daily_batch")

(***************************************************************************)
(* Claims about the daily review rounds                                    *)
(***************************************************************************)

TrackedAt == { i \in 1..Len(items) : items[i].id = TrackedId }

TrackedPending == \E i \in TrackedAt : items[i].state = PENDING

\* The tracked item was in the batch that get_daily_batch has just returned.
TrackedReturned ==
    /\ LastOp = "get_daily_batch"
    /\ \E k \in 1..Len(lastCall[1].returned) : lastCall[1].returned[k] \in TrackedAt

\* severity_weight * (1.0 - confidence), the score without the age factor.
BaseScore(item) ==
    (CASE item.severity = CRITICAL -> critical_weight
       [] item.severity = WARNING  -> warning_weight
       [] OTHER                    -> info_weight) * (100 - item.confidence)

\* No pending item added after the tracked one has a higher score without the age
\* factor than the tracked one.
LaterNotStronger ==
    \A t \in TrackedAt : \A i \in (t + 1)..Len(items) :
        items[i].state = PENDING => BaseScore(items[i]) <= BaseScore(items[t])

\* C12 as stated: whatever items are added after it, a pending item is eventually in
\* the batch returned by get_daily_batch, when every round's batch is fully reviewed.
C12_AsStated == TrackedPending ~> TrackedReturned

\* C12 amended: when no item added after it has a higher severity_weight x
\* (1 - confidence), a pending item is eventually in the batch returned by
\* get_daily_batch, when every round's batch is fully reviewed.
C12_NoStarvationByWeakerItems ==
    ([] LaterNotStronger) => (TrackedPending ~> TrackedReturned)

\* C12 witness: the tracked item is returned in a batch after it was left out of an
\* earlier one, ahead of a pending item added after it that is left out.
C12_Witness ==
    /\ TrackedReturned
    /\ LaterNotStronger
    /\ \E t \in TrackedAt :
          /\ AgeHours(items[t]) > 0
          /\ \E i \in (t + 1)..Len(items) :
                /\ \A k \in 1..Len(lastCall[1].returned) : lastCall[1].returned[k] # i
                /\ items[i].state = PENDING

(***************************************************************************)
(* Concurrent callers of the review queue                                  *)
(*                                                                         *)
(* escalate_aged_items runs in steps: for each item in turn it tests the   *)
(* state and the age (lines 87-90) and, in a later step, writes ESCALATED  *)
(* (lines 91-92).  The queue has no lock.  When the callers serialise the  *)
(* mutations, mark_reviewed waits for a running escalate_aged_items;       *)
(* otherwise it runs between any two of its steps.                         *)
(***************************************************************************)

\* The ReviewItems added: id, severity, confidence.
RaceItems == { << "a", CRITICAL, 50 >>, << "b", WARNING, 50 >> }

RaceIds == { "a", "b" }

\* The running call: the position of the loop, whether the tests of lines 87-90
\* have passed for the item at that position, and the escalated list so far.
Running(idx, checked, escalated) ==
    << [ idx |-> idx, checked |-> checked, escalated |-> escalated ] >>

\* The callers' mutex is free, or there is none.
MayMutate == serialised => escalation = << >>

RaceInit ==
    /\ items = << >>
    /\ now = 0
    /\ lastCall = << >>
    /\ serialised \in BOOLEAN
    /\ escalation = << >>
    /\ MatcherIdle
    /\ AnalysisIdle
    /\ EngineIdle

\* escalate_aged_items is called: escalated = []
EscalateCall ==
    /\ escalation = << >>
    /\ escalation' = Running(1, FALSE, << >>)
    /\ UNCHANGED << items, now, lastCall, serialised, matcherVars, engineVars, analysisVars >>

\* Lines 86-90 for the next item: the loop goes on to the item after it unless the
\* item is PENDING and older than the timeout.
EscalateTest ==
    /\ escalation # << >>
    /\ ~ escalation[1].checked
    /\ escalation[1].idx <= Len(items)
    /\ escalation' =
          IF Escalates(items[escalation[1].idx])
          THEN Running(escalation[1].idx, TRUE, escalation[1].escalated)
          ELSE Running(escalation[1].idx + 1, FALSE, escalation[1].escalated)
    /\ UNCHANGED << items, now, lastCall, serialised, matcherVars, engineVars, analysisVars >>

\* Lines 91-92: item.state = ReviewState.ESCALATED; escalated.append(item)
EscalateWrite ==
    /\ escalation # << >>
    /\ escalation[1].checked
    /\ items' = [ items EXCEPT ![escalation[1].idx].state = ESCALATED ]
    /\ escalation' = Running(escalation[1].idx + 1, FALSE,
                             Append(escalation[1].escalated, escalation[1].idx))
    /\ UNCHANGED << now, lastCall, serialised, matcherVars, engineVars, analysisVars >>

\* Line 93: return escalated
EscalateReturn ==
    /\ escalation # << >>
    /\ ~ escalation[1].checked
    /\ escalation[1].idx > Len(items)
    /\ lastCall' = Call("escalate_aged_items", "", FALSE, escalation[1].escalated, "")
    /\ escalation' = << >>
    /\ UNCHANGED << items, now, serialised, matcherVars, engineVars, analysisVars >>

\* A reviewer calls mark_reviewed, after the running escalate_aged_items when the
\* callers serialise.
Review(item_id, approved) ==
    /\ MayMutate
    /\ MarkReviewed(item_id, approved, "ok")

RaceNext ==
    \/ Tick
    \/ \E new \in RaceItems : Add(new)
    \/ EscalateCall
    \/ EscalateTest
    \/ EscalateWrite
    \/ EscalateReturn
    \/ \E item_id \in RaceIds, approved \in BOOLEAN : Review(item_id, approved)

SpecRace == RaceInit /\ [][RaceNext]_vars

(***************************************************************************)
(* Claims about concurrent callers                                         *)
(***************************************************************************)

Decided == { APPROVED, REJECTED }

\* C13: a reviewer's APPROVED or REJECTED is overwritten by ESCALATED only by the
\* write of an escalate_aged_items call that is not serialised with mark_reviewed
\* and whose PENDING test of that item came before the decision; when the calls are
\* serialised escalate_aged_items never changes a decided item.  (A decision is
\* otherwise changed only by mark_reviewed, to the other decision.)
C13_OverwriteOnlyWhenInterleaved ==
    [][ \A i \in 1..Len(items) :
            (items[i].state \in Decided /\ i <= Len(items') /\ items'[i].state # items[i].state) =>
                \/ /\ items'[i].state \in Decided
                   /\ lastCall' # << >>
                   /\ lastCall'[1].op = "mark_reviewed"
                   /\ lastCall'[1].item_id = items[i].id
                \/ /\ items'[i].state = ESCALATED
                   /\ ~ serialised
                   /\ escalation # << >>
                   /\ escalation[1].checked
                   /\ escalation[1].idx = i ]_vars

\* C13 witness: without serialisation, mark_reviewed has returned True for an item
\* and the running escalate_aged_items has then written ESCALATED over the decision.
C13_Witness ==
    /\ ~ serialised
    /\ escalation # << >>
    /\ LastOp = "mark_reviewed"
    /\ lastCall[1].returned = << TRUE >>
    /\ lastCall[1].was = PENDING
    /\ \E i \in 1..Len(items) :
          /\ items[i].id = lastCall[1].item_id
          /\ \A j \in 1..(i - 1) : items[j].id # items[i].id
          /\ items[i].state = ESCALATED
          /\ items[i].notes = "ok"

\* C20: the contradiction rate of a report is the number of its polarity_conflict
\* violations, one per member item of each contradicting group, over the number of
\* items, and 0 when there are no items.
C20_AsStated ==
    report # NoResult =>
        LET reported == ViolationsOfType("polarity_conflict")
        IN  IF Len(Visited) = 0
            THEN RateEq(TheReport.contradiction_rate, Rate(0, 1))
            ELSE RateEq(TheReport.contradiction_rate, Rate(Len(reported), Len(Visited)))

\* What the rate is: the number of contradicting groups over the number of items.
C20_GroupsOverItems ==
    report # NoResult =>
        LET groups ==
                UNION { { << o, SpanKey(outputs[o].items[i]) >> :
                            i \in 1..Len(outputs[o].items) } : o \in 1..Len(outputs) }
            conflicting(g) ==
                Cardinality({ outputs[g[1]].items[i].polarity :
                                i \in { i \in 1..Len(outputs[g[1]].items) :
                                          SpanKey(outputs[g[1]].items[i]) = g[2] } }) > 1
        IN  IF Len(Visited) = 0
            THEN RateEq(TheReport.contradiction_rate, Rate(0, 1))
            ELSE RateEq(TheReport.contradiction_rate,
                        Rate(Cardinality({ g \in groups : conflicting(g) }), Len(Visited)))

(***************************************************************************)
(* Drift detection: metrics/statistical.py, metrics/extractors.py and      *)
(* metrics/comparator.py, with config.py DriftThresholds                   *)
(*                                                                         *)
(* A divergence is a whole number of hundred-thousandths (10000 is 0.10).  *)
(* A distribution, the dict bucket -> share of the extractors, is the      *)
(* function bucket -> count over the buckets that occur: the share of a    *)
(* bucket is its count over the sum of the counts.  run_drift_analysis is  *)
(* modelled for the three distribution metrics and the alerts that rest on *)
(* them (lines 134-138, 148-162, 189-193).                                 *)
(***************************************************************************)

STABLE   == "STABLE"
DRIFT    == "DRIFT"
BREAKAGE == "BREAKAGE"

\* One, in hundred-thousandths.
Scale == 100000

\* ln 2 = 0.69315, in hundred-thousandths.
Ln2 == 69315

\* DriftThresholds.js_drift = 0.10 and js_breakage = 0.20, in hundred-thousandths.
js_drift    == 10000
js_breakage == 20000

\* np.log(x / y) for whole numbers x >= y > 0: halve x / y into [1, 2), then
\* ln r = 2 (z + z^3/3 + z^5/5 + z^7/7 + z^9/9) with z = (r - 1) / (r + 1) <= 1/3.
RECURSIVE LogAtLeastOne(_, _)
LogAtLeastOne(x, y) ==
    IF x >= 2 * y THEN Ln2 + LogAtLeastOne(x, 2 * y)
    ELSE LET z  == ((x - y) * Scale) \div (x + y)
             z2 == (z * z) \div Scale
             t3 == (z * z2) \div Scale
             t5 == (t3 * z2) \div Scale
             t7 == (t5 * z2) \div Scale
             t9 == (t7 * z2) \div Scale
         IN  2 * (z + (t3 \div 3) + (t5 \div 5) + (t7 \div 7) + (t9 \div 9))

\* np.log(x / y) for whole numbers x, y > 0.
Log(x, y) == IF x >= y THEN LogAtLeastOne(x, y) ELSE 0 - LogAtLeastOne(y, x)

RECURSIVE SumSeq(_)
SumSeq(seq) == IF seq = << >> THEN 0 ELSE Head(seq) + SumSeq(Tail(seq))

\* np.clip(p, 1e-10, None) as far as the normalised vector shows it: a vector of
\* zeros becomes uniform; beside a positive entry a zero keeps a share of 1e-10 or
\* less, which is no hundred-thousandth.
Clip(p) ==
    IF \A i \in 1..Len(p) : p[i] = 0 THEN [ i \in 1..Len(p) |-> 1 ] ELSE p

\* Mutant of jensen_shannon_divergence: entropy(p, m) alone.
jensen_shannon_divergence_one_sided(p, q) ==
    LET P == Clip(p)
        Q == Clip(q)
        A == SumSeq(P)
        B == SumSeq(Q)
        rel_entr(i) ==
            IF P[i] = 0 THEN 0
            ELSE P[i] * B * Log(2 * P[i] * B, P[i] * B + Q[i] * A)
    IN  SumSeq([ i \in 1..Len(P) |-> rel_entr(i) ]) \div (A * B)

\* jensen_shannon_divergence(p, q) for vectors of weights: with p = P / A and
\* q = Q / B normalised and m = 0.5 (p + q), p[i] / m[i] is
\* 2 P[i] B / (P[i] B + Q[i] A); the sum is taken over the common denominator A B.
jensen_shannon_divergence(p, q) ==
    LET P == Clip(p)
        Q == Clip(q)
        A == SumSeq(P)
        B == SumSeq(Q)
        rel_entr(i) ==
            (IF P[i] = 0 THEN 0
             ELSE P[i] * B * Log(2 * P[i] * B, P[i] * B + Q[i] * A))
            + (IF Q[i] = 0 THEN 0
               ELSE Q[i] * A * Log(2 * Q[i] * A, P[i] * B + Q[i] * A))
    IN  SumSeq([ i \in 1..Len(P) |-> rel_entr(i) ]) \div (2 * A * B)

\* Mutant of determine_status: the thresholds are exclusive.
determine_status_exclusive(js_div) ==
    IF js_div > js_breakage THEN BREAKAGE
    ELSE IF js_div > js_drift THEN DRIFT
    ELSE STABLE

determine_status(js_div) ==
    IF js_div >= js_breakage THEN BREAKAGE
    ELSE IF js_div >= js_drift THEN DRIFT
    ELSE STABLE

\* round(js_div, 4), in ten-thousandths.
Round4(js_div) == (js_div + 5) \div 10

\* The keys of the distributions, in sorted() order.
KeyOrder == << "emotion", "food", "high", "low", "medium", "mind", "symptom", "unknown" >>

\* counts of the keys of a list, as the dict the extractors build.
CountsOf(keys) ==
    [ k \in { keys[i] : i \in 1..Len(keys) } |->
        Cardinality({ i \in 1..Len(keys) : keys[i] = k }) ]

\* get_all_items(outputs)
get_all_items(outs) == [ i \in 1..Len(Flat(outs)) |-> Flat(outs)[i].item ]

compute_domain_distribution(its) ==
    CountsOf([ i \in 1..Len(its) |-> its[i].domain ])

compute_arousal_distribution(its) ==
    LET emotion(item) == item.domain = EMOTION /\ item.arousal_bucket \notin { Null, "" }
        emotion_items == SelectSeq(its, emotion)
    IN  CountsOf([ i \in 1..Len(emotion_items) |-> emotion_items[i].arousal_bucket ])

compute_intensity_distribution(its) ==
    LET other(item) == item.domain # EMOTION /\ item.intensity_bucket \notin { Null, "" }
        relevant == SelectSeq(its, other)
    IN  CountsOf([ i \in 1..Len(relevant) |-> relevant[i].intensity_bucket ])

\* dist.get(k, 0), as the numerator of the share.
Weight(dist, k) == IF k \in DOMAIN dist THEN dist[k] ELSE 0

\* The denominator of the shares of a distribution.
Total(dist) == SumSeq([ i \in 1..Len(KeyOrder) |-> Weight(dist, KeyOrder[i]) ])

\* The divergence compare_distributions computes for two distributions with a key.
Divergence(baseline_dist, current_dist) ==
    LET present(k) == k \in (DOMAIN baseline_dist) \cup (DOMAIN current_dist)
        all_keys == SelectSeq(KeyOrder, present)
        baseline_arr == [ i \in 1..Len(all_keys) |-> Weight(baseline_dist, all_keys[i]) ]
        current_arr  == [ i \in 1..Len(all_keys) |-> Weight(current_dist, all_keys[i]) ]
    IN  jensen_shannon_divergence(baseline_arr, current_arr)

\* compare_distributions: the DriftMetric with its name, js_divergence (rounded, in
\* ten-thousandths) and status.
compare_distributions(baseline_dist, current_dist, name) ==
    IF (DOMAIN baseline_dist) \cup (DOMAIN current_dist) = {}
    THEN [ name |-> name, js_divergence |-> 0, status |-> STABLE ]
    ELSE LET js_div == Divergence(baseline_dist, current_dist)
         IN  [ name |-> name, js_divergence |-> Round4(js_div),
               status |-> determine_status(js_div) ]

\* Mutant of arousal_collapsed: a current share of exactly 0.9 counts too.
arousal_collapsed_inclusive(base_arousal, curr_arousal) ==
    /\ 10 * Weight(curr_arousal, "high") >= 9 * Total(curr_arousal)
    /\ Total(curr_arousal) > 0
    /\ 10 * Weight(base_arousal, "high") < 7 * Total(base_arousal)
           \/ Total(base_arousal) = 0

\* curr_arousal.get("high", 0) > 0.9 and base_arousal.get("high", 0) < 0.7
arousal_collapsed(base_arousal, curr_arousal) ==
    /\ 10 * Weight(curr_arousal, "high") > 9 * Total(curr_arousal)
    /\ 10 * Weight(base_arousal, "high") < 7 * Total(base_arousal)
           \/ Total(base_arousal) = 0

DriftAlert(level, kind) == [ level |-> level, kind |-> kind ]

\* DriftThresholds.domain_shift_pct and volume_change_pct, in percentage points.
domain_shift_pct  == 15
volume_change_pct == 25

\* compute_uncertainty_rate(items), as the fraction uncertain_count / len(items).
compute_uncertainty_rate(its) ==
    LET is_uncertain(item) ==
            \/ item.intensity_bucket = "unknown"
            \/ item.domain = EMOTION /\ item.arousal_bucket = Null
            \/ item.confidence < 50
    IN  IF its = << >> THEN Rate(0, 1)
        ELSE Rate(Len(SelectSeq(its, is_uncertain)), Len(its))

\* compute_extraction_volume(outputs)["mean"], as the fraction sum(counts) / len(counts).
compute_extraction_volume(outs) ==
    IF outs = << >> THEN Rate(0, 1) ELSE Rate(Len(Flat(outs)), Len(outs))

\* The status of the extraction volume: vol_change is (curr - base) / base * 100 when
\* the baseline mean is positive and 0 otherwise; the quotients of the means the
\* calls give, over one or two outputs, are exact in doubles at 25 and 50 percent.
volume_status(base_mean, curr_mean) ==
    LET diff == curr_mean[1] * base_mean[2] - base_mean[1] * curr_mean[2]
        abs == IF diff < 0 THEN 0 - diff ELSE diff
        scale == base_mean[1] * curr_mean[2]
    IN  IF base_mean[1] = 0 THEN STABLE
        ELSE IF 100 * abs > 50 * scale THEN BREAKAGE
        ELSE IF 100 * abs > volume_change_pct * scale THEN DRIFT
        ELSE STABLE

\* The baseline shares, in sixtieths, for which the double (curr - base) * 100 of two
\* shares exactly fifteen points apart is 15.000000000000002, not 15.0 or less:
\* 0.4 - 0.25 is 0.15000000000000002. The table holds the shares of at most 20 items.
RoundsAboveFifteen == { 3, 15, 16, 18, 21, 24, 30, 36, 39, 42, 45, 51 }

\* (curr - base) * 100 > pct for two shares as doubles and pct = 15, the threshold
\* of both callers: the doubles decide as the fractions do except at a difference of
\* exactly fifteen points, where the rounding of the subtraction decides.
ShiftAbove(base, curr, pct) ==
    LET diff == 100 * (curr[1] * base[2] - base[1] * curr[2])
        bound == pct * base[2] * curr[2]
    IN  IF diff = bound /\ pct = 15
        THEN (60 * base[1]) \div base[2] \in RoundsAboveFifteen
        ELSE diff > bound

\* The status of the uncertainty rate: curr_unc > 0.6, then unc_change > 15.
uncertainty_status(base_unc, curr_unc) ==
    IF 5 * curr_unc[1] > 3 * curr_unc[2] THEN BREAKAGE
    ELSE IF ShiftAbove(base_unc, curr_unc, 15) THEN DRIFT
    ELSE STABLE

\* dist.get(domain, 0), as a share.
ShareOf(dist, k) == IF Total(dist) = 0 THEN Rate(0, 1) ELSE Rate(Weight(dist, k), Total(dist))

\* The domains whose surge is alerted, in the order of the loop.
SurgeDomains == << MIND, EMOTION >>

\* "WARNING: {domain} domain surged ..."
SurgeAlert(domain) == [ level |-> WARNING, kind |-> "domain surged", domain |-> domain ]

\* The number of lattice paths from (i, j) to (n, m) on which |i m - j n| stays
\* below bound: the paths of two samples whose empirical distribution functions
\* stay closer than bound / (n m).
RECURSIVE PathsInside(_, _, _, _, _)
PathsInside(i, j, n, m, bound) ==
    LET gap == i * m - j * n
    IN  IF gap >= bound \/ 0 - gap >= bound THEN 0
        ELSE IF i = n /\ j = m THEN 1
        ELSE (IF i < n THEN PathsInside(i + 1, j, n, m, bound) ELSE 0)
             + (IF j < m THEN PathsInside(i, j + 1, n, m, bound) ELSE 0)

\* stats.ks_2samp(baseline, current) for samples of at most 10000 values: the largest
\* distance of the two empirical distribution functions and its exact two-sided
\* p-value, the share of the lattice paths that reach that distance, as fractions.
ks_2samp(baseline, current) ==
    LET n == Len(baseline)
        m == Len(current)
        values == { baseline[i] : i \in 1..n } \cup { current[i] : i \in 1..m }
        below(sample, x) == Cardinality({ i \in 1..Len(sample) : sample[i] <= x })
        gap(x) == below(baseline, x) * m - below(current, x) * n
        gaps == { IF gap(x) < 0 THEN 0 - gap(x) ELSE gap(x) : x \in values }
        largest == CHOOSE g \in gaps : \A h \in gaps : h <= g
        all == PathsInside(0, 0, n, m, n * m + 1)
    IN  [ statistic |-> Rate(largest, n * m),
          pvalue |-> IF largest = 0 THEN Rate(1, 1)
                     ELSE Rate(all - PathsInside(0, 0, n, m, largest), all) ]

\* Mutant of ks_test: only an empty sample is left untested.
ks_test_nonempty(baseline, current) ==
    IF Len(baseline) < 1 \/ Len(current) < 1
    THEN [ statistic |-> Rate(0, 1), pvalue |-> Rate(1, 1) ]
    ELSE ks_2samp(baseline, current)

ks_test(baseline, current) ==
    IF Len(baseline) < 2 \/ Len(current) < 2
    THEN [ statistic |-> Rate(0, 1), pvalue |-> Rate(1, 1) ]
    ELSE ks_2samp(baseline, current)

\* The status of the confidence distribution: ks_pval < 0.01, then ks_pval < 0.05.
confidence_status(ks_pval) ==
    IF RateLess(ks_pval, Rate(1, 100)) THEN BREAKAGE
    ELSE IF RateLess(ks_pval, Rate(5, 100)) THEN DRIFT
    ELSE STABLE

\* run_drift_analysis: the metrics with their names and statuses, the alerts and the
\* thresholds, each in the order of the code; the display values of the metrics
\* (baseline_value, current_value, change_pct) are left out.
run_drift_analysis(baseline_outputs, current_outputs) ==
    LET baseline_items == get_all_items(baseline_outputs)
        current_items == get_all_items(current_outputs)
        vol_status == volume_status(compute_extraction_volume(baseline_outputs),
                                    compute_extraction_volume(current_outputs))
        unc_status == uncertainty_status(compute_uncertainty_rate(baseline_items),
                                         compute_uncertainty_rate(current_items))
        base_domain == compute_domain_distribution(baseline_items)
        curr_domain == compute_domain_distribution(current_items)
        base_arousal == compute_arousal_distribution(baseline_items)
        curr_arousal == compute_arousal_distribution(current_items)
        domain_metric == compare_distributions(base_domain, curr_domain, "domain_mix")
        arousal_metric ==
            compare_distributions(base_arousal, curr_arousal, "arousal_distribution")
        intensity_metric ==
            compare_distributions(compute_intensity_distribution(baseline_items),
                                  compute_intensity_distribution(current_items),
                                  "intensity_distribution")
        ks == ks_test([ i \in 1..Len(baseline_items) |-> baseline_items[i].confidence ],
                      [ i \in 1..Len(current_items) |-> current_items[i].confidence ])
        conf_status == confidence_status(ks.pvalue)
        surged(domain) ==
            ShiftAbove(ShareOf(base_domain, domain), ShareOf(curr_domain, domain),
                       domain_shift_pct)
        surges == SelectSeq(SurgeDomains, surged)
    IN  [ metrics |->
              << [ name |-> "extraction_volume", status |-> vol_status ],
                 [ name |-> "uncertainty_rate", status |-> unc_status ],
                 domain_metric, arousal_metric, intensity_metric,
                 [ name |-> "confidence_distribution", ks_statistic |-> ks.statistic,
                   ks_pvalue |-> ks.pvalue, status |-> conf_status ] >>,
          alerts |->
              (IF vol_status # STABLE
               THEN << DriftAlert(WARNING, "extraction volume changed") >> ELSE << >>)
              \o [ i \in 1..Len(surges) |-> SurgeAlert(surges[i]) ]
              \o (IF arousal_collapsed(base_arousal, curr_arousal)
                  THEN << DriftAlert(CRITICAL, "arousal collapsed") >> ELSE << >>)
              \o (IF domain_metric.status = BREAKAGE
                  THEN << DriftAlert(CRITICAL, "significant domain distribution shift") >>
                  ELSE << >>)
              \o (IF arousal_metric.status = BREAKAGE
                  THEN << DriftAlert(CRITICAL, "significant arousal distribution shift") >>
                  ELSE << >>)
              \o (IF conf_status # STABLE
                  THEN << DriftAlert(WARNING, "confidence distribution shifted") >>
                  ELSE << >>),
          thresholds_used |->
              [ js_drift |-> js_drift, js_breakage |-> js_breakage,
                domain_shift_pct |-> domain_shift_pct,
                volume_change_pct |-> volume_change_pct ] ]

(***************************************************************************)
(* Drift detection: the calls                                              *)
(***************************************************************************)

\* Largest number of items of one kind in a snapshot of the grid, largest weight
\* and largest length of a vector given to jensen_shannon_divergence.
MaxKindCount == 2
MaxWeight    == 2
MaxVectorLen == 3

Copies(item, n) == [ i \in 1..n |-> item ]

\* A snapshot: one ParserOutput of emotion items of low, medium and high arousal,
\* symptom items of low intensity and food items of high intensity.
Snapshot(low, medium, high, symptom, food) ==
    << [ journal_id |-> "J1",
         items |-> Copies(ParserItem(EMOTION, W_ok, PRESENT, Null, "low", 80), low)
                   \o Copies(ParserItem(EMOTION, W_ok, PRESENT, Null, "medium", 80), medium)
                   \o Copies(ParserItem(EMOTION, W_ok, PRESENT, Null, "high", 80), high)
                   \o Copies(ParserItem(SYMPTOM, W_ok, PRESENT, "low", Null, 80), symptom)
                   \o Copies(ParserItem(FOOD, W_ok, PRESENT, "high", Null, 80), food) ] >>

\* Arousal shares {low 0.35, medium 0.35, high 0.30}, and {low 0.05, high 0.95}.
ScenarioBaseline == Snapshot(7, 7, 6, 0, 0)
ScenarioCurrent  == Snapshot(1, 0, 19, 0, 0)

\* The grid of small snapshots, the scenario, and the snapshots whose share of high
\* arousal is exactly 0.9 and exactly 0.7.
Snapshots ==
    { Snapshot(l, m, h, sy, f) : l, m, h \in 0..MaxKindCount, sy, f \in 0..1 }
    \cup { ScenarioBaseline, ScenarioCurrent, Snapshot(0, 1, 19, 0, 0),
           Snapshot(1, 0, 9, 0, 0), Snapshot(3, 0, 7, 0, 0) }

\* The divergences determine_status is called with.
Divergences ==
    { 0, js_drift - 1, js_drift, js_drift + 1, js_breakage - 1, js_breakage,
      js_breakage + 1, Ln2 }

DriftInit ==
    /\ \/ \E b, c \in Snapshots :
            arguments = [ fn |-> "run_drift_analysis",
                          baseline_outputs |-> b, current_outputs |-> c ]
       \/ \E js_div \in Divergences :
            arguments = [ fn |-> "determine_status", js_div |-> js_div ]
       \/ \E n \in 1..MaxVectorLen :
            \E p, q \in [ 1..n -> 0..MaxWeight ] :
               arguments = [ fn |-> "jensen_shannon_divergence", p |-> p, q |-> q ]
    /\ result = NoResult
    /\ MatcherIdle
    /\ EngineIdle
    /\ QueueIdle

RunDriftAnalysis ==
    /\ arguments.fn = "run_drift_analysis"
    /\ result = NoResult
    /\ result' = Returned(run_drift_analysis(arguments.baseline_outputs,
                                             arguments.current_outputs))
    /\ UNCHANGED << arguments, matcherVars, engineVars, queueVars >>

DetermineStatus ==
    /\ arguments.fn = "determine_status"
    /\ result = NoResult
    /\ result' = Returned(determine_status(arguments.js_div))
    /\ UNCHANGED << arguments, matcherVars, engineVars, queueVars >>

JensenShannonDivergence ==
    /\ arguments.fn = "jensen_shannon_divergence"
    /\ result = NoResult
    /\ result' = Returned(jensen_shannon_divergence(arguments.p, arguments.q))
    /\ UNCHANGED << arguments, matcherVars, engineVars, queueVars >>

DriftNext ==
    \/ RunDriftAnalysis
    \/ DetermineStatus
    \/ JensenShannonDivergence

SpecDrift == DriftInit /\ [][DriftNext]_vars

(***************************************************************************)
(* Drift detection: claims                                                 *)
(***************************************************************************)

\* The names of the distribution metrics, in the order of the report.
MetricNames == << "domain_mix", "arousal_distribution", "intensity_distribution" >>

\* The distribution a distribution metric is computed from.
DistributionOf(name, outs) ==
    CASE name = "domain_mix" -> compute_domain_distribution(get_all_items(outs))
      [] name = "arousal_distribution" -> compute_arousal_distribution(get_all_items(outs))
      [] name = "intensity_distribution" -> compute_intensity_distribution(get_all_items(outs))

DriftReturned(fn) == result # NoResult /\ arguments.fn = fn

C14_WitnessEachStatus ==
    /\ DriftReturned("run_drift_analysis")
    /\ { result[1].metrics[n + 2].status : n \in 1..3 } = { STABLE, DRIFT, BREAKAGE }

\* The arousal distribution of a snapshot.
ArousalOf(outs) == DistributionOf("arousal_distribution", outs)

CollapseAlerts ==
    SelectSeq(result[1].alerts,
              LAMBDA a : a = DriftAlert(CRITICAL, "arousal collapsed"))

\* C15: a drift report carries the CRITICAL "arousal collapsed" alert, once, exactly
\* when the current share of "high" is above 0.9 and the baseline share of "high"
\* is below 0.7, an absent bucket counting as 0; for a baseline of shares low 0.35,
\* medium 0.35, high 0.30 and a current share of high of 0.95 the arousal metric is
\* in BREAKAGE and the alert is there.
C15_ArousalCollapse ==
    DriftReturned("run_drift_analysis") =>
        LET base == ArousalOf(arguments.baseline_outputs)
            curr == ArousalOf(arguments.current_outputs)
            share_above(dist, num, den) ==
                Total(dist) > 0 /\ den * Weight(dist, "high") > num * Total(dist)
            share_below(dist, num, den) ==
                Total(dist) = 0 \/ den * Weight(dist, "high") < num * Total(dist)
            scenario ==
                /\ Total(base) = 20
                /\ Weight(base, "low") = 7
                /\ Weight(base, "medium") = 7
                /\ Weight(base, "high") = 6
                /\ Total(curr) > 0
                /\ 100 * Weight(curr, "high") = 95 * Total(curr)
        IN  /\ Len(CollapseAlerts) = (IF share_above(curr, 9, 10) /\ share_below(base, 7, 10)
                                      THEN 1 ELSE 0)
            /\ scenario => /\ result[1].metrics[4].status = BREAKAGE
                           /\ Len(CollapseAlerts) = 1

\* The alert is raised over an arousal metric that is STABLE between two snapshots
\* that both hold emotion items.
C15_Witness ==
    /\ DriftReturned("run_drift_analysis")
    /\ Len(CollapseAlerts) = 1
    /\ result[1].metrics[4].status = STABLE
    /\ Total(ArousalOf(arguments.baseline_outputs)) > 0
    /\ Total(ArousalOf(arguments.current_outputs)) > 0

\* The scenario: the alert beside an arousal metric in BREAKAGE.
C15_WitnessScenario ==
    /\ DriftReturned("run_drift_analysis")
    /\ arguments.baseline_outputs = ScenarioBaseline
    /\ arguments.current_outputs = ScenarioCurrent
    /\ Len(CollapseAlerts) = 1
    /\ result[1].metrics[4].status = BREAKAGE

\* C18: jensen_shannon_divergence gives the same value with its arguments swapped,
\* 0 for two equal vectors, a value from 0 to ln 2 for every two vectors of
\* non-negative weights of one length, and ln 2, the maximum, for two vectors of
\* disjoint support.
C18_JensenShannonProperties ==
    DriftReturned("jensen_shannon_divergence") =>
        LET p == arguments.p
            q == arguments.q
            support(v) == { i \in 1..Len(v) : v[i] > 0 }
        IN  /\ result[1] = jensen_shannon_divergence(q, p)
            /\ p = q => result[1] = 0
            /\ result[1] >= 0
            /\ result[1] <= Ln2
            /\ ( /\ support(p) # {}
                 /\ support(q) # {}
                 /\ support(p) \cap support(q) = {} ) => result[1] = Ln2

\* Two vectors of disjoint support reach ln 2, with different weights in them.
C18_Witness ==
    /\ DriftReturned("jensen_shannon_divergence")
    /\ arguments.p = << 2, 0, 0 >>
    /\ arguments.q = << 0, 1, 2 >>
    /\ result[1] = Ln2

\* Two vectors of overlapping support lie strictly between 0 and ln 2.
C18_WitnessBetween ==
    /\ DriftReturned("jensen_shannon_divergence")
    /\ arguments.p = << 2, 1 >>
    /\ arguments.q = << 1, 2 >>
    /\ result[1] > 0
    /\ result[1] < js_drift

(***************************************************************************)
(* Canary evaluation: canary/runner.py, with config.py CanaryThresholds.   *)
(* canary/matcher.py, canary/evaluator.py and canary/actions.py are        *)
(* modelled from the specification of the Canary Evaluator.                *)
(***************************************************************************)

PASS         == "PASS"
ALERT        == "ALERT"
HUMAN_REVIEW == "HUMAN_REVIEW"
ROLLBACK     == "ROLLBACK"

\* CanaryThresholds, in hundredths.
f1_pass            == 70
f1_alert           == 60
f1_human_review    == 50
f1_rollback        == 40
min_evidence_match == 80

GoldItem(domain, sp, polarity) ==
    [ domain |-> domain, evidence_span |-> sp, polarity |-> polarity ]

\* A rate r is at least hundredths / 100.
AtLeast(r, hundredths) == 100 * r[1] >= hundredths * r[2]

\* An extracted item matches a gold item: domain and polarity are equal and the
\* normalised spans are equal.
ItemsMatch(parser_item, gold_item) ==
    /\ parser_item.domain = gold_item.domain
    /\ parser_item.polarity = gold_item.polarity
    /\ Strip(Lower(parser_item.evidence_span)) = Strip(Lower(gold_item.evidence_span))

\* The parser items consumed when the gold items from position g on each take the
\* first matching parser item that is not yet consumed.
RECURSIVE Consumed(_, _, _, _)
Consumed(parser_items, gold_items, g, used) ==
    IF g > Len(gold_items) THEN used
    ELSE LET free == { i \in 1..Len(parser_items) :
                         i \notin used /\ ItemsMatch(parser_items[i], gold_items[g]) }
         IN  IF free = {} THEN Consumed(parser_items, gold_items, g + 1, used)
             ELSE Consumed(parser_items, gold_items, g + 1,
                           used \cup { CHOOSE i \in free : \A j \in free : i <= j })

\* match_items(parser_items, gold_items): (matched, missed, extra)
match_items(parser_items, gold_items) ==
    LET matched == Cardinality(Consumed(parser_items, gold_items, 1, {}))
    IN  << matched, Len(gold_items) - matched, Len(parser_items) - matched >>

\* compute_precision_recall_f1(matched, missed, extra): precision is
\* matched / (matched + extra), recall matched / (matched + missed), F1 their
\* harmonic mean 2 matched / (2 matched + missed + extra); each 0 without a match.
compute_precision_recall_f1(matched, missed, extra) ==
    IF matched = 0 THEN << Rate(0, 1), Rate(0, 1), Rate(0, 1) >>
    ELSE << Rate(matched, matched + extra), Rate(matched, matched + missed),
            Rate(2 * matched, 2 * matched + missed + extra) >>

\* compute_evidence_match_rate(parser_items, gold_items): the fraction of the parser
\* items whose span is grounded in the span of a gold item of their domain; 0
\* without parser items.
compute_evidence_match_rate(parser_items, gold_items) ==
    LET grounded(item) ==
            \E g \in 1..Len(gold_items) :
               /\ gold_items[g].domain = item.domain
               /\ check_evidence_exists(item.evidence_span, gold_items[g].evidence_span)
    IN  IF parser_items = << >> THEN Rate(0, 1)
        ELSE Rate(Len(SelectSeq(parser_items, grounded)), Len(parser_items))

\* determine_action(f1, evidence_match_rate): evidence below min_evidence_match
\* overrides; then the first F1 threshold met, from the highest down.
determine_action(f1, evidence_rate) ==
    IF ~AtLeast(evidence_rate, min_evidence_match) THEN ROLLBACK
    ELSE IF AtLeast(f1, f1_pass) THEN PASS
    ELSE IF AtLeast(f1, f1_alert) THEN ALERT
    ELSE IF AtLeast(f1, f1_human_review) THEN HUMAN_REVIEW
    ELSE ROLLBACK

\* round(x, 3), in thousandths.
Round3(r) == (2000 * r[1] + r[2]) \div (2 * r[2])

\* {x.journal_id: x for x in xs}: the journal ids in order of first occurrence.
RECURSIVE FirstIds(_, _)
FirstIds(xs, seen) ==
    IF xs = << >> THEN << >>
    ELSE IF Head(xs).journal_id \in seen THEN FirstIds(Tail(xs), seen)
    ELSE << Head(xs).journal_id >> \o FirstIds(Tail(xs), seen \cup { Head(xs).journal_id })

\* {x.journal_id: x for x in xs}[journal_id]: the last entry with the id.
ById(xs, journal_id) ==
    xs[CHOOSE i \in 1..Len(xs) :
          /\ xs[i].journal_id = journal_id
          /\ \A j \in (i + 1)..Len(xs) : xs[j].journal_id # journal_id]

HasId(xs, journal_id) == \E i \in 1..Len(xs) : xs[i].journal_id = journal_id

\* The CanaryJournalResult of one gold journal (lines 35-64).
JournalResult(parser_outputs, gold_labels, journal_id) ==
    LET gold == ById(gold_labels, journal_id)
    IN  IF ~HasId(parser_outputs, journal_id)
        THEN [ journal_id |-> journal_id, gold_count |-> Len(gold.items),
               parser_count |-> 0, matched |-> 0, missed |-> Len(gold.items),
               extra |-> 0 ]
        ELSE LET parser == ById(parser_outputs, journal_id)
                 counts == match_items(parser.items, gold.items)
             IN  [ journal_id |-> journal_id, gold_count |-> Len(gold.items),
                   parser_count |-> Len(parser.items), matched |-> counts[1],
                   missed |-> counts[2], extra |-> counts[3] ]

\* [item for x in xs for item in x.items]
RECURSIVE ItemsOf(_)
ItemsOf(xs) == IF xs = << >> THEN << >> ELSE Head(xs).items \o ItemsOf(Tail(xs))

\* The per_journal list: one CanaryJournalResult for each gold journal id.
PerJournal(parser_outputs, gold_labels) ==
    LET ids == FirstIds(gold_labels, {})
    IN  [ n \in 1..Len(ids) |-> JournalResult(parser_outputs, gold_labels, ids[n]) ]

\* The evidence-match rate across all items (lines 70-72).
EvidenceRate(parser_outputs, gold_labels) ==
    LET in_gold(o) == HasId(gold_labels, o.journal_id)
    IN  compute_evidence_match_rate(ItemsOf(SelectSeq(parser_outputs, in_gold)),
                                    ItemsOf(gold_labels))

\* CanaryReport(...) of lines 79-101, its rates in thousandths.
CanaryReport(prf, evidence_rate, matched, missed, extra, action, per_journal) ==
    [ precision |-> Round3(prf[1]), recall |-> Round3(prf[2]), f1 |-> Round3(prf[3]),
      evidence_match_rate |-> Round3(evidence_rate),
      matched_count |-> matched, missed_count |-> missed, extra_count |-> extra,
      action |-> action, per_journal |-> per_journal ]

\* Mutant of run_canary_evaluation: the action is decided on the precision.
run_canary_evaluation_on_precision(parser_outputs, gold_labels) ==
    LET per_journal == PerJournal(parser_outputs, gold_labels)
        total_matched == SumSeq([ n \in DOMAIN per_journal |-> per_journal[n].matched ])
        total_missed == SumSeq([ n \in DOMAIN per_journal |-> per_journal[n].missed ])
        total_extra == SumSeq([ n \in DOMAIN per_journal |-> per_journal[n].extra ])
        prf == compute_precision_recall_f1(total_matched, total_missed, total_extra)
        evidence_rate == EvidenceRate(parser_outputs, gold_labels)
    IN  CanaryReport(prf, evidence_rate, total_matched, total_missed, total_extra,
                     determine_action(prf[1], evidence_rate), per_journal)

\* Mutant of run_canary_evaluation: the gold items of a journal without parser
\* output are not added to the total of missed items.
run_canary_evaluation_forgetful(parser_outputs, gold_labels) ==
    LET per_journal == PerJournal(parser_outputs, gold_labels)
        total_matched == SumSeq([ n \in DOMAIN per_journal |-> per_journal[n].matched ])
        total_missed ==
            SumSeq([ n \in DOMAIN per_journal |->
                       IF HasId(parser_outputs, per_journal[n].journal_id)
                       THEN per_journal[n].missed ELSE 0 ])
        total_extra == SumSeq([ n \in DOMAIN per_journal |-> per_journal[n].extra ])
        prf == compute_precision_recall_f1(total_matched, total_missed, total_extra)
        evidence_rate == EvidenceRate(parser_outputs, gold_labels)
    IN  CanaryReport(prf, evidence_rate, total_matched, total_missed, total_extra,
                     determine_action(prf[3], evidence_rate), per_journal)

\* run_canary_evaluation(parser_outputs, gold_labels)
run_canary_evaluation(parser_outputs, gold_labels) ==
    LET per_journal == PerJournal(parser_outputs, gold_labels)
        total_matched == SumSeq([ n \in DOMAIN per_journal |-> per_journal[n].matched ])
        total_missed == SumSeq([ n \in DOMAIN per_journal |-> per_journal[n].missed ])
        total_extra == SumSeq([ n \in DOMAIN per_journal |-> per_journal[n].extra ])
        prf == compute_precision_recall_f1(total_matched, total_missed, total_extra)
        evidence_rate == EvidenceRate(parser_outputs, gold_labels)
    IN  CanaryReport(prf, evidence_rate, total_matched, total_missed, total_extra,
                     determine_action(prf[3], evidence_rate), per_journal)

(***************************************************************************)
(* Canary evaluation: the calls                                            *)
(***************************************************************************)

\* Largest number of parser items and of gold items in a call.
MaxParserItems == 2
MaxGoldItems   == 2

\* Gold items: " Cramps" present, and "ok" present.
GoldKinds ==
    { GoldItem(SYMPTOM, << " ", "C" >> \o Tail(W_cramps), PRESENT),
      GoldItem(FOOD, W_ok, PRESENT) }

\* Parser items: "cramps" present and "ok" present match a gold item; "cramps"
\* absent is grounded in a gold span and matches none; "no" is not grounded.
ParserKinds ==
    { ParserItem(SYMPTOM, W_cramps, PRESENT, "low", Null, 80),
      ParserItem(SYMPTOM, W_cramps, ABSENT, "low", Null, 80),
      ParserItem(FOOD, W_ok, PRESENT, "low", Null, 80),
      ParserItem(FOOD, W_no, PRESENT, "low", Null, 80) }

ItemSeqs(kinds, n) == UNION { [ 1..k -> kinds ] : k \in 0..n }

\* One record, or two, with journal ids of the given sets and at most n items in all.
Records(kinds, n, firstIds, secondIds) ==
    { << [ journal_id |-> j, items |-> its ] >> :
        j \in firstIds, its \in ItemSeqs(kinds, n) }
    \cup { << [ journal_id |-> j1, items |-> SubSeq(its, 1, Min(cut, Len(its))) ],
              [ journal_id |-> j2,
                items |-> SubSeq(its, Min(cut, Len(its)) + 1, Len(its)) ] >> :
             j1 \in firstIds, j2 \in secondIds, its \in ItemSeqs(kinds, n), cut \in 0..n }

\* Gold labels of J1, or of J1 and J2, or two of J1.
GoldLabelInputs == Records(GoldKinds, MaxGoldItems, { "J1" }, { "J1", "J2" })

\* Parser outputs of J1 or of J9, which has no gold label, alone or before one of
\* J1 or J2; or none.
ParserOutputInputs ==
    { << >> } \cup Records(ParserKinds, MaxParserItems, { "J1", "J9" }, { "J1", "J2" })

\* F1 and evidence-match rates, in hundredths, that determine_action is called with.
F1Inputs == { 0, f1_rollback - 1, f1_rollback, f1_human_review - 1, f1_human_review,
              f1_alert - 1, f1_alert, f1_pass - 1, f1_pass, 100 }

EvidenceInputs == { 0, min_evidence_match - 1, min_evidence_match, 100 }

CanaryInit ==
    /\ \/ \E parser_outputs \in ParserOutputInputs, gold_labels \in GoldLabelInputs :
            arguments = [ fn |-> "run_canary_evaluation",
                          parser_outputs |-> parser_outputs, gold_labels |-> gold_labels ]
       \/ \E f1 \in F1Inputs, evidence \in EvidenceInputs :
            arguments = [ fn |-> "determine_action", f1 |-> Rate(f1, 100),
                          evidence_rate |-> Rate(evidence, 100) ]
    /\ result = NoResult
    /\ MatcherIdle
    /\ EngineIdle
    /\ QueueIdle

RunCanaryEvaluation ==
    /\ arguments.fn = "run_canary_evaluation"
    /\ result = NoResult
    /\ result' = Returned(run_canary_evaluation(arguments.parser_outputs,
                                                arguments.gold_labels))
    /\ UNCHANGED << arguments, matcherVars, engineVars, queueVars >>

DetermineAction ==
    /\ arguments.fn = "determine_action"
    /\ result = NoResult
    /\ result' = Returned(determine_action(arguments.f1, arguments.evidence_rate))
    /\ UNCHANGED << arguments, matcherVars, engineVars, queueVars >>

CanaryNext ==
    \/ RunCanaryEvaluation
    \/ DetermineAction

SpecCanary == CanaryInit /\ [][CanaryNext]_vars

(***************************************************************************)
(* Canary evaluation: claims                                               *)
(***************************************************************************)

CanaryReturned(fn) == result # NoResult /\ arguments.fn = fn

\* The F1 of the counts of a report: 2 matched / (2 matched + missed + extra).
F1Of(rep) ==
    IF rep.matched_count = 0 THEN Rate(0, 1)
    ELSE Rate(2 * rep.matched_count,
              2 * rep.matched_count + rep.missed_count + rep.extra_count)

C16_WitnessBoundary ==
    /\ CanaryReturned("determine_action")
    /\ arguments.evidence_rate = Rate(80, 100)
    /\ arguments.f1 = Rate(60, 100)
    /\ result[1] = ALERT

MulDiv(x, y, d) == (x \div d) * y + ((x % d) * y) \div d

\* The largest r in lo..hi with r * r <= x, where lo * lo <= x.
RECURSIVE IsqrtIn(_, _, _)
IsqrtIn(x, lo, hi) ==
    IF lo = hi THEN lo
    ELSE LET mid == (lo + hi + 1) \div 2
         IN  IF mid * mid <= x THEN IsqrtIn(x, mid, hi) ELSE IsqrtIn(x, lo, mid - 1)

\* floor(sqrt(x)) for 0 <= x < 2^31
Isqrt(x) == IsqrtIn(x, 0, 46340)

\* round(num / den, 4) in ten-thousandths, for num in ten-thousandths.
RoundDiv(num, den) ==
    (num \div den) + (IF num % den >= den - (num % den) THEN 1 ELSE 0)

Max(a, b) == IF a >= b THEN a ELSE b

\* compute_confidence_intervals(rate, sample_size) with the default confidence:
\* (lower, upper, margin_of_error).
compute_confidence_intervals(rate, sample_size) ==
    IF sample_size = 0 THEN << 0, 0, 0 >>
    ELSE LET s == rate[1] * sample_size
             \* 2500 s (1 - rate) + 2401 and its square root, in ten-thousandths
             radicand == MulDiv(s, 25000000, rate[2])
                         - MulDiv(MulDiv(s, 25000000, rate[2]), rate[1], rate[2])
                         + 24010000
             root == Isqrt(radicand)
             sqrt == root * 100 + ((radicand - root * root) * 50) \div root
             \* 1250 s + 2401 and 49 sqrt(...), in ten-thousandths
             center == MulDiv(s, 12500000, rate[2]) + 24010000
             margin == 49 * sqrt
             denominator == 1250 * sample_size + 4802
             lower == Max(0, center - margin)
         IN  << RoundDiv(lower, denominator),
                Min(10000, RoundDiv(center + margin, denominator)),
                RoundDiv(margin, denominator) >>

\* Largest denominator of a rate and largest sample size of the small calls; the
\* sample size and the largest number of counted items of the large calls.
MaxRateDen   == 4
MaxSample    == 12
LargeSample  == 1000000
MaxCounted   == 3

WilsonInit ==
    /\ \/ \E d \in 1..MaxRateDen, n \in 0..MaxSample :
            \E k \in 0..d :
               arguments = [ fn |-> "compute_confidence_intervals",
                             rate |-> Rate(k, d), sample_size |-> n ]
       \/ \E k \in 0..MaxCounted :
            arguments = [ fn |-> "compute_confidence_intervals",
                          rate |-> Rate(k, LargeSample), sample_size |-> LargeSample ]
    /\ result = NoResult
    /\ MatcherIdle
    /\ EngineIdle
    /\ QueueIdle

ComputeConfidenceIntervals ==
    /\ arguments.fn = "compute_confidence_intervals"
    /\ result = NoResult
    /\ result' = Returned(compute_confidence_intervals(arguments.rate,
                                                       arguments.sample_size))
    /\ UNCHANGED << arguments, matcherVars, engineVars, queueVars >>

WilsonNext == ComputeConfidenceIntervals

SpecWilson == WilsonInit /\ [][WilsonNext]_vars

\* C19: compute_confidence_intervals returns (0, 0, 0) for a sample size of 0, and
\* for every rate in [0, 1] and sample size of 1 or more bounds with
\* 0 <= lower <= rate <= upper <= 1.
C19_AsStated ==
    result # NoResult =>
        LET lower == result[1][1]
            upper == result[1][2]
            rate == arguments.rate
        IN  IF arguments.sample_size = 0 THEN result[1] = << 0, 0, 0 >>
            ELSE /\ 0 <= lower
                 /\ lower * rate[2] <= 10000 * rate[1]
                 /\ 10000 * rate[1] <= upper * rate[2]
                 /\ upper <= 10000

\* The interval holds the rate for every sample of at most MaxSample items.
C19_SmallSamples ==
    (result # NoResult /\ arguments.sample_size <= MaxSample) => C19_AsStated

(***************************************************************************)
(* invariants/runner.py: run_invariant_checks on snapshot sets whose rates *)
(* lie at and around the thresholds                                        *)
(***************************************************************************)

\* Largest number of hallucinated items, of schema-invalid items and of
\* contradicting pairs in a snapshot set.
MaxHallucinated   == 2
MaxInvalid        == 2
MaxContradictions == 2

\* The numbers of items: 1/20 is max_hallucination_rate, 19/20 is
\* min_schema_validity, 1/100 is max_contradiction_rate.
SnapshotSizes == { 0, 1, 19, 20, 21, 99, 100, 101 }

\* The k-th contradicting pair: one span, present and absent, grounded in J1.
ContradictingPair(k) ==
    LET sp == IF k = 1 THEN W_cramps ELSE W_no
    IN  << ParserItem(SYMPTOM, sp, PRESENT, "low", Null, 80),
           ParserItem(SYMPTOM, sp, ABSENT, "low", Null, 80) >>

RECURSIVE ContradictingPairs(_)
ContradictingPairs(k) ==
    IF k = 0 THEN << >> ELSE ContradictingPairs(k - 1) \o ContradictingPair(k)

\* One output of J1 with the given numbers of items: valid and grounded;
\* hallucinated ("ok cramps" is not in J1); schema-invalid (an emotion item without
\* arousal_bucket); and contradicting pairs.
ThresholdSnapshot(valid, hallucinated, invalid, pairs) ==
    << [ journal_id |-> "J1",
         items |-> Copies(ParserItem(SYMPTOM, S_No_cramps, ABSENT, "low", Null, 85), valid)
                   \o Copies(ParserItem(SYMPTOM, S_ok_cramps, PRESENT, "low", Null, 80),
                             hallucinated)
                   \o Copies(ParserItem(EMOTION, W_ok, PRESENT, "low", Null, 80), invalid)
                   \o ContradictingPairs(pairs) ] >>

ThresholdInit ==
    /\ \E total \in SnapshotSizes, hallucinated \in 0..MaxHallucinated,
          invalid \in 0..MaxInvalid, pairs \in 0..MaxContradictions :
          /\ hallucinated + invalid + 2 * pairs <= total
          /\ outputs = ThresholdSnapshot(total - hallucinated - invalid - 2 * pairs,
                                         hallucinated, invalid, pairs)
    /\ journals = JournalMap
    /\ checks = NoResult
    /\ report = NoResult
    /\ MatcherIdle
    /\ AnalysisIdle
    /\ QueueIdle

SpecThresholds == ThresholdInit /\ [][EngineNext]_vars

\* The CRITICAL alerts of a kind in the report.
CriticalAlerts(kind) ==
    LET is(a) == a.level = CRITICAL /\ a.kind = kind IN SelectSeq(TheReport.alerts, is)

\* C21: a report holds the CRITICAL schema alert exactly when its schema validity
\* rate is below 0.95, the CRITICAL hallucination alert exactly when its
\* hallucination rate is above 0.05 and the CRITICAL contradiction alert exactly
\* when its contradiction rate is above 0.01, each once; a rate equal to its
\* threshold raises none, and a snapshot set without items raises no alert.
C21_CriticalAlerts ==
    report # NoResult =>
        LET schema == TheReport.schema_validity_rate
            hall == TheReport.hallucination_rate
            contra == TheReport.contradiction_rate
            count(b) == IF b THEN 1 ELSE 0
        IN  /\ Len(CriticalAlerts("schema validity"))
                  = count(100 * schema[1] < 95 * schema[2])
            /\ Len(CriticalAlerts("hallucination rate"))
                  = count(100 * hall[1] > 5 * hall[2])
            /\ Len(CriticalAlerts("contradiction rate"))
                  = count(100 * contra[1] > 1 * contra[2])
            /\ \A k \in 1..Len(TheReport.alerts) :
                  TheReport.alerts[k].level = CRITICAL =>
                      TheReport.alerts[k].kind \in
                          { "schema validity", "hallucination rate", "contradiction rate" }
            /\ Len(Visited) = 0 => TheReport.alerts = << >>

\* 20 items with one hallucination and one schema-invalid item: both rates are at
\* their thresholds and the report has no alert.
C21_Witness ==
    /\ report # NoResult
    /\ Len(Visited) = 20
    /\ RateEq(TheReport.hallucination_rate, Rate(5, 100))
    /\ RateEq(TheReport.schema_validity_rate, Rate(95, 100))
    /\ TheReport.alerts = << >>

\* 100 items with one contradicting pair: no alert; 99 items with one: the alert.
C21_WitnessContradiction ==
    /\ report # NoResult
    /\ \/ /\ Len(Visited) = 100
          /\ RateEq(TheReport.contradiction_rate, Rate(1, 100))
          /\ TheReport.alerts = << >>
       \/ /\ Len(Visited) = 99
          /\ RateEq(TheReport.contradiction_rate, Rate(1, 99))
          /\ Len(CriticalAlerts("contradiction rate")) = 1

\* The WARNING "systematic hallucination" alerts of the report that name a span.
SystematicAlerts(sp) ==
    LET is(a) == a.level = WARNING /\ a.kind = "systematic hallucination" /\ a.span = sp
    IN  SelectSeq(TheReport.alerts, is)

\* The positions in Visited of the ungrounded items that carry a span.
UngroundedWith(sp) == { k \in Ungrounded : Visited[k].item.evidence_span = sp }

\* C22: for every evidence span text the report holds one WARNING "systematic
\* hallucination" alert naming the span, with the number of its hallucinations,
\* exactly when more than one item not grounded in its own journal carries the span,
\* in one journal or in several; a span with one hallucination has none.
C22_SystematicHallucination ==
    report # NoResult =>
        LET spans == { Visited[k].item.evidence_span : k \in 1..Len(Visited) }
        IN  /\ \A sp \in spans :
                  IF Cardinality(UngroundedWith(sp)) > 1
                  THEN /\ Len(SystematicAlerts(sp)) = 1
                       /\ SystematicAlerts(sp)[1].count = Cardinality(UngroundedWith(sp))
                  ELSE SystematicAlerts(sp) = << >>
            /\ \A k \in 1..Len(TheReport.alerts) :
                  TheReport.alerts[k].level = WARNING =>
                      /\ TheReport.alerts[k].kind = "systematic hallucination"
                      /\ TheReport.alerts[k].span \in spans

\* One span hallucinated in two journals, with its alert, beside a span
\* hallucinated once, without one.
C22_Witness ==
    /\ report # NoResult
    /\ \E sp \in { Visited[k].item.evidence_span : k \in 1..Len(Visited) } :
          /\ Cardinality({ Visited[k].journal_id : k \in UngroundedWith(sp) }) = 2
          /\ Len(SystematicAlerts(sp)) = 1
    /\ \E sp \in { Visited[k].item.evidence_span : k \in 1..Len(Visited) } :
          /\ Cardinality(UngroundedWith(sp)) = 1
          /\ SystematicAlerts(sp) = << >>

(***************************************************************************)
(* Drift reports: the calls                                                *)
(***************************************************************************)

\* Largest number of items of a sample.
MaxSampleItems == 5

\* A sample: one ParserOutput of symptom items that are certain, of low confidence
\* and of unknown intensity, emotion items without arousal, food items and mind items.
Sample(certain, lowconf, unknown, unaroused, food, mind) ==
    << [ journal_id |-> "J1",
         items |-> Copies(ParserItem(SYMPTOM, W_ok, PRESENT, "low", Null, 80), certain)
                   \o Copies(ParserItem(SYMPTOM, W_ok, PRESENT, "low", Null, 40), lowconf)
                   \o Copies(ParserItem(SYMPTOM, W_ok, PRESENT, "unknown", Null, 80), unknown)
                   \o Copies(ParserItem(EMOTION, W_ok, PRESENT, Null, Null, 80), unaroused)
                   \o Copies(ParserItem(FOOD, W_ok, PRESENT, "low", Null, 80), food)
                   \o Copies(ParserItem(MIND, W_ok, PRESENT, "low", Null, 80), mind) ] >>

\* Domain shares {symptom 0.3, food 0.7} and {symptom 17/23, food 6/23}: their
\* divergence is 0.09997, below js_drift and 0.1 when rounded to four places.
RoundingBaseline == Sample(3, 0, 0, 0, 7, 0)
RoundingCurrent  == Sample(17, 0, 0, 0, 6, 0)

\* The samples: no output at all, an output beside an empty one, and the outputs of
\* up to MaxSampleItems items with one kind of uncertain item or with mind items.
Samples ==
    { << >>, Sample(1, 0, 0, 0, 0, 0) \o Sample(0, 0, 0, 0, 0, 0) }
    \cup UNION { { Sample(c, x, 0, 0, 0, 0), Sample(c, 0, x, 0, 0, 0),
                   Sample(c, 0, 0, x, 0, 0), Sample(c, 0, 0, 0, x, 0) } :
                 c \in 0..MaxSampleItems, x \in 0..MaxSampleItems }
    \cup { Sample(c, 0, 0, 0, 0, x) : c \in 0..3, x \in 1..2 }

ReportInit ==
    /\ \E b, c \in Samples \cup { RoundingBaseline, RoundingCurrent } :
          /\ \/ b \in Samples /\ c \in Samples
                /\ Len(Flat(b)) <= MaxSampleItems
                /\ Len(Flat(c)) <= MaxSampleItems
             \/ b = RoundingBaseline /\ c = RoundingCurrent
             \/ b = RoundingCurrent /\ c = RoundingBaseline
          /\ arguments = [ fn |-> "run_drift_analysis",
                           baseline_outputs |-> b, current_outputs |-> c ]
    /\ result = NoResult
    /\ MatcherIdle
    /\ EngineIdle
    /\ QueueIdle

SpecDriftReport == ReportInit /\ [][RunDriftAnalysis]_vars

(***************************************************************************)
(* Drift reports: claims                                                   *)
(***************************************************************************)

\* The metric of a name in the returned report.
MetricNamed(name) ==
    LET named(metric) == metric.name = name
    IN  SelectSeq(result[1].metrics, named)[1]

\* The uncertainty rates of the two snapshots of the call.
BaselineUncertainty == compute_uncertainty_rate(get_all_items(arguments.baseline_outputs))
CurrentUncertainty  == compute_uncertainty_rate(get_all_items(arguments.current_outputs))

\* C23: the uncertainty_rate metric is BREAKAGE when the current uncertainty rate is
\* above 0.6, whatever the baseline; otherwise DRIFT when the current rate is more
\* than 15 percentage points above the baseline rate; STABLE otherwise.
C23_AsStated ==
    DriftReturned("run_drift_analysis") =>
        LET base == BaselineUncertainty
            curr == CurrentUncertainty
        IN  MetricNamed("uncertainty_rate").status =
                IF 5 * curr[1] > 3 * curr[2] THEN BREAKAGE
                ELSE IF 100 * (curr[1] * base[2] - base[1] * curr[2]) > 15 * base[2] * curr[2]
                     THEN DRIFT
                     ELSE STABLE

\* C23, away from a difference of exactly 15 points: the rule decides the status.
C23_OffTheBoundary ==
    DriftReturned("run_drift_analysis") =>
        LET base == BaselineUncertainty
            curr == CurrentUncertainty
            points == 100 * (curr[1] * base[2] - base[1] * curr[2])
        IN  points # 15 * base[2] * curr[2] =>
                MetricNamed("uncertainty_rate").status =
                    IF 5 * curr[1] > 3 * curr[2] THEN BREAKAGE
                    ELSE IF points > 15 * base[2] * curr[2] THEN DRIFT
                    ELSE STABLE

\* A rate of 0.25 against a rate of 0.4: 15 points apart, and reported in DRIFT.
C23_WitnessBoundary ==
    /\ DriftReturned("run_drift_analysis")
    /\ BaselineUncertainty = Rate(1, 4)
    /\ CurrentUncertainty = Rate(2, 5)
    /\ MetricNamed("uncertainty_rate").status = DRIFT

\* The confidences of the items of a snapshot.
ConfidencesOf(outs) ==
    [ i \in 1..Len(get_all_items(outs)) |-> get_all_items(outs)[i].confidence ]

\* The WARNING alerts of the report about the confidence distribution.
ConfidenceAlerts ==
    LET shifted(a) == a.level = WARNING /\ a.kind = "confidence distribution shifted"
    IN  SelectSeq(result[1].alerts, shifted)

\* C24: the confidence_distribution metric is BREAKAGE when its KS p-value is below
\* 0.01, DRIFT when it is below 0.05 and at least 0.01, STABLE otherwise; when the
\* baseline or the current snapshot has fewer than 2 items the statistic is 0 and
\* the p-value 1, the metric is STABLE and the report has no confidence alert.
C24_ConfidenceStatus ==
    DriftReturned("run_drift_analysis") =>
        LET metric == MetricNamed("confidence_distribution")
            pvalue == metric.ks_pvalue
        IN  /\ metric.status =
                  CASE 100 * pvalue[1] < pvalue[2] -> BREAKAGE
                    [] 100 * pvalue[1] >= pvalue[2] /\ 100 * pvalue[1] < 5 * pvalue[2] -> DRIFT
                    [] 100 * pvalue[1] >= 5 * pvalue[2] -> STABLE
            /\ ( \/ Len(ConfidencesOf(arguments.baseline_outputs)) < 2
                 \/ Len(ConfidencesOf(arguments.current_outputs)) < 2 ) =>
                   /\ metric.ks_statistic[1] = 0
                   /\ pvalue[1] = pvalue[2]
                   /\ metric.status = STABLE
                   /\ ConfidenceAlerts = << >>

\* One item of confidence 0.4 against five items of confidence 0.8: not tested, STABLE.
C24_Witness ==
    /\ DriftReturned("run_drift_analysis")
    /\ ConfidencesOf(arguments.baseline_outputs) = << 40 >>
    /\ ConfidencesOf(arguments.current_outputs) = << 80, 80, 80, 80, 80 >>
    /\ MetricNamed("confidence_distribution").status = STABLE
    /\ ConfidenceAlerts = << >>

\* Four items against four in DRIFT, with p-value 2/70 and the alert.
C24_WitnessDrift ==
    /\ DriftReturned("run_drift_analysis")
    /\ RateEq(MetricNamed("confidence_distribution").ks_pvalue, Rate(2, 70))
    /\ MetricNamed("confidence_distribution").status = DRIFT
    /\ Len(ConfidenceAlerts) = 1

\* Five items against five in BREAKAGE, with p-value 2/252 and the alert.
C24_WitnessBreakage ==
    /\ DriftReturned("run_drift_analysis")
    /\ RateEq(MetricNamed("confidence_distribution").ks_pvalue, Rate(2, 252))
    /\ MetricNamed("confidence_distribution").status = BREAKAGE
    /\ Len(ConfidenceAlerts) = 1

\* The kinds of the alerts run_drift_analysis can append about a metric.
AlertKindsOf(name) ==
    CASE name = "extraction_volume" -> { "extraction volume changed" }
      [] name = "uncertainty_rate" -> { }
      [] name = "domain_mix" -> { "domain surged", "significant domain distribution shift" }
      [] name = "arousal_distribution" ->
             { "arousal collapsed", "significant arousal distribution shift" }
      [] name = "intensity_distribution" -> { }
      [] name = "confidence_distribution" -> { "confidence distribution shifted" }

\* The report holds an alert about the metric of a name.
Alerted(name) ==
    \E k \in 1..Len(result[1].alerts) : result[1].alerts[k].kind \in AlertKindsOf(name)

\* C27: in every drift report each metric in DRIFT or BREAKAGE is accompanied by at
\* least one alert about that metric.
C27_AsStated ==
    DriftReturned("run_drift_analysis") =>
        \A n \in 1..Len(result[1].metrics) :
            result[1].metrics[n].status \in { DRIFT, BREAKAGE } =>
                Alerted(result[1].metrics[n].name)

\* C27, for the metrics the code alerts on: the extraction volume and the confidence
\* distribution outside STABLE, the domain mix and the arousal distribution in BREAKAGE.
C27_AlertedMetrics ==
    DriftReturned("run_drift_analysis") =>
        /\ \A name \in { "extraction_volume", "confidence_distribution" } :
              MetricNamed(name).status # STABLE => Alerted(name)
        /\ \A name \in { "domain_mix", "arousal_distribution" } :
              MetricNamed(name).status = BREAKAGE => Alerted(name)

\* Two certain items against two items of low confidence: the uncertainty rate is in
\* BREAKAGE and the report has no alert at all.
C27_WitnessSilentBreakage ==
    /\ DriftReturned("run_drift_analysis")
    /\ ConfidencesOf(arguments.baseline_outputs) = << 80, 80 >>
    /\ ConfidencesOf(arguments.current_outputs) = << 40, 40 >>
    /\ MetricNamed("uncertainty_rate").status = BREAKAGE
    /\ result[1].alerts = << >>

\* C28: for every distribution metric of a drift report the recorded status is the
\* status the threshold rule gives the recorded js_divergence, rounded to four
\* places, under the js_drift and js_breakage recorded in thresholds_used.
C28_AsStated ==
    DriftReturned("run_drift_analysis") =>
        \A n \in 1..3 :
            LET metric == MetricNamed(MetricNames[n])
                used == result[1].thresholds_used
            IN  metric.status =
                    IF 10 * metric.js_divergence >= used.js_breakage THEN BREAKAGE
                    ELSE IF 10 * metric.js_divergence >= used.js_drift THEN DRIFT
                    ELSE STABLE

\* C28, for the divergence before rounding: the recorded status is the status of the
\* threshold rule, and the recorded divergence is within 0.00005 of it.
C28_UnroundedDivergence ==
    DriftReturned("run_drift_analysis") =>
        \A n \in 1..3 :
            LET metric == MetricNamed(MetricNames[n])
                used == result[1].thresholds_used
                base == DistributionOf(MetricNames[n], arguments.baseline_outputs)
                curr == DistributionOf(MetricNames[n], arguments.current_outputs)
                js_div == IF DOMAIN base = {} /\ DOMAIN curr = {} THEN 0
                          ELSE Divergence(base, curr)
            IN  /\ metric.status =
                       IF js_div >= used.js_breakage THEN BREAKAGE
                       ELSE IF js_div >= used.js_drift THEN DRIFT
                       ELSE STABLE
                /\ 10 * metric.js_divergence - js_div \in -5..5

\* Domain shares 0.3 / 0.7 against 17/23 / 6/23: a recorded divergence of 0.1000 with
\* a recorded status of STABLE.
C28_WitnessRounding ==
    /\ DriftReturned("run_drift_analysis")
    /\ arguments.baseline_outputs = RoundingBaseline
    /\ arguments.current_outputs = RoundingCurrent
    /\ MetricNamed("domain_mix").js_divergence = 1000
    /\ MetricNamed("domain_mix").status = STABLE

(***************************************************************************)
(* Claims about the review queue: overflow, severity and mark_reviewed     *)
(***************************************************************************)

\* The positions get_daily_batch returns.
InDailyBatch == { get_daily_batch[k] : k \in 1..Len(get_daily_batch) }

\* C25: whenever get_daily_batch leaves out an item that is PENDING and CRITICAL,
\* every item it returns is CRITICAL.
C25_AsStated ==
    CriticalPending \ InDailyBatch # {} =>
        \A b \in InDailyBatch : items[b].severity = CRITICAL

\* A WARNING item of confidence 0.5 is returned and a CRITICAL item of confidence
\* 0.75, added at the same hour after it, is left out.
C25_WitnessLeftOut ==
    \E w \in InDailyBatch, c \in CriticalPending \ InDailyBatch :
        /\ items[w].severity = WARNING
        /\ items[w].confidence = 50
        /\ items[c].confidence = 75
        /\ items[w].created_at = items[c].created_at
        /\ w < c

(***************************************************************************)
(* From an invariant report to a review queue                              *)
(***************************************************************************)

\* AlertLevel(str, Enum): the value model_dump(mode="json") writes for a member.
AlertLevelValue(level) ==
    CASE level = INFO -> "INFO"
      [] level = WARNING -> "WARNING"
      [] level = CRITICAL -> "CRITICAL"

\* to_json_serializable(report)["violations"]: the violations as write_invariant_report
\* writes them and json.load reads them back.
WrittenViolations(rep) ==
    [ k \in 1..Len(rep.violations) |->
        [ rep.violations[k] EXCEPT !.severity = AlertLevelValue(rep.violations[k].severity) ] ]

\* The ReviewItem both constructions make: PENDING, confidence 0.5, created now.
NewReviewItem(id, severity) ==
    [ id |-> id, severity |-> severity, confidence |-> 50,
      created_at |-> now, state |-> PENDING, notes |-> "" ]

\* build_review_queue_from_invariants(report): one item per violation, with an id
\* "rev-" and eight hexadecimal digits of a new uuid, here the number of the item.
BuildReviewQueueFromInvariants ==
    /\ report # NoResult
    /\ lastCall = << >>
    /\ items' = [ k \in 1..Len(TheReport.violations) |->
                    NewReviewItem(<< "rev", k >>, TheReport.violations[k].severity) ]
    /\ lastCall' = Call("build_review_queue_from_invariants", "", FALSE, << >>, "")
    /\ UNCHANGED << now, callVars, matcherVars, engineVars, analysisVars >>

\* The review-queue command on the file write_invariant_report wrote: one item per
\* violation, with id "{journal_id}-{item_index}".
ReviewQueueCommand ==
    /\ report # NoResult
    /\ lastCall = << >>
    /\ LET violations == WrittenViolations(TheReport)
       IN  items' = [ k \in 1..Len(violations) |->
                        NewReviewItem(<< violations[k].journal_id, violations[k].item_index >>,
                                      IF violations[k].severity = "critical"
                                      THEN CRITICAL ELSE WARNING) ]
    /\ lastCall' = Call("review_queue", "", FALSE, << >>, "")
    /\ UNCHANGED << now, callVars, matcherVars, engineVars, analysisVars >>

ReviewNext ==
    \/ RunInvariantChecks
    \/ BuildReviewQueueFromInvariants
    \/ ReviewQueueCommand

SpecReview == EngineInit /\ [][ReviewNext]_vars

\* The queue built by a construction holds the severity of each violation: every
\* CRITICAL violation is a CRITICAL item that get_critical_items returns.
SeverityPreserved ==
    /\ Len(items) = Len(TheReport.violations)
    /\ \A k \in 1..Len(TheReport.violations) :
          TheReport.violations[k].severity = CRITICAL =>
              /\ items[k].severity = CRITICAL
              /\ \E c \in 1..Len(get_critical_items) : get_critical_items[c] = k

\* C26: on both construction paths, build_review_queue_from_invariants and the
\* review-queue command reading a written invariant report, every CRITICAL violation
\* becomes a CRITICAL ReviewItem and is returned by get_critical_items while PENDING.
C26_AsStated ==
    LastOp \in { "build_review_queue_from_invariants", "review_queue" } => SeverityPreserved

\* C26, for build_review_queue_from_invariants alone.
C26_BuildPath ==
    LastOp = "build_review_queue_from_invariants" => SeverityPreserved

\* build_review_queue_from_invariants has queued a CRITICAL violation as CRITICAL.
C26_WitnessBuildPath ==
    /\ LastOp = "build_review_queue_from_invariants"
    /\ get_critical_items # << >>

\* The review-queue command has queued a CRITICAL violation as a WARNING item, and
\* get_critical_items returns nothing.
C26_WitnessCommand ==
    /\ LastOp = "review_queue"
    /\ \E k \in 1..Len(items) :
          /\ TheReport.violations[k].severity = CRITICAL
          /\ items[k].severity = WARNING
    /\ get_critical_items = << >>

(***************************************************************************)
(* The summary report                                                      *)
(***************************************************************************)

\* "CRITICAL" in a, for an alert string of either report: the level the string
\* starts with, or the evidence span a systematic hallucination alert quotes.
InAlertText(a) ==
    \/ a.level = CRITICAL
    \/ /\ "span" \in DOMAIN a
       /\ IsSubstring(<< "C", "R", "I", "T", "I", "C", "A", "L" >>, a.span)

\* write_summary_report(invariant, drift, canary): the SummaryReport it builds, with
\* its status, its critical alerts and its recommended action.
write_summary_report(invariant, drift, canary) ==
    LET critical == Len(SelectSeq(invariant.alerts, InAlertText))
    IN  [ overall_status |->
              IF critical > 0 \/ canary.action = ROLLBACK THEN "CRITICAL"
              ELSE IF RateLess(Rate(5, 100), invariant.hallucination_rate) THEN "DEGRADED"
              ELSE "HEALTHY",
          drift_summary |->
              [ k \in 1..Len(drift.metrics) |->
                  << drift.metrics[k].name, drift.metrics[k].status >> ],
          critical_alerts |->
              SelectSeq(invariant.alerts, InAlertText) \o SelectSeq(drift.alerts, InAlertText),
          recommended_action |->
              IF canary.action = ROLLBACK THEN "rollback to previous model version"
              ELSE IF critical > 0 THEN "block batch and investigate"
              ELSE "continue monitoring" ]

\* The invariant reports of the calls: of no item, of a grounded item, of 1
\* hallucination in 20 items and in 1, of an invalid item and of a contradiction.
SummaryInvariantReports ==
    { InvariantReport(outs, invariant_checks(outs, JournalMap)) :
        outs \in { ThresholdSnapshot(0, 0, 0, 0), ThresholdSnapshot(1, 0, 0, 0),
                   ThresholdSnapshot(19, 1, 0, 0), ThresholdSnapshot(0, 1, 0, 0),
                   ThresholdSnapshot(0, 0, 1, 0), ThresholdSnapshot(0, 0, 0, 1) } }

\* The drift reports of the calls: without alert, with a WARNING about the volume,
\* with the CRITICAL alerts of the arousal scenario, with a domain mix in BREAKAGE.
SummaryDriftReports ==
    { run_drift_analysis(Sample(2, 0, 0, 0, 0, 0), Sample(2, 0, 0, 0, 0, 0)),
      run_drift_analysis(Sample(2, 0, 0, 0, 0, 0), Sample(4, 0, 0, 0, 0, 0)),
      run_drift_analysis(ScenarioBaseline, ScenarioCurrent),
      run_drift_analysis(Sample(2, 0, 0, 0, 0, 0), Sample(0, 0, 0, 0, 2, 0)) }

SummaryInit ==
    /\ \E invariant \in SummaryInvariantReports, drift \in SummaryDriftReports,
          action \in { PASS, ALERT, HUMAN_REVIEW, ROLLBACK } :
          arguments = [ fn |-> "write_summary_report", invariant |-> invariant,
                        drift |-> drift, canary |-> [ action |-> action ] ]
    /\ result = NoResult
    /\ MatcherIdle
    /\ EngineIdle
    /\ QueueIdle

WriteSummaryReport ==
    /\ arguments.fn = "write_summary_report"
    /\ result = NoResult
    /\ result' = Returned(write_summary_report(arguments.invariant, arguments.drift,
                                               arguments.canary))
    /\ UNCHANGED << arguments, matcherVars, engineVars, queueVars >>

SpecSummary == SummaryInit /\ [][WriteSummaryReport]_vars

\* The alerts of the two reports given to write_summary_report whose level is CRITICAL.
CriticalInputAlerts ==
    LET critical(a) == a.level = CRITICAL
    IN  SelectSeq(arguments.invariant.alerts, critical)
        \o SelectSeq(arguments.drift.alerts, critical)

\* C29: in every summary report overall_status is HEALTHY only if critical_alerts is
\* empty, recommended_action is "continue monitoring" only if critical_alerts is
\* empty, and a CRITICAL alert of the invariant report or of the drift report makes
\* the overall status CRITICAL.
C29_AsStated ==
    DriftReturned("write_summary_report") =>
        /\ result[1].overall_status = "HEALTHY" => result[1].critical_alerts = << >>
        /\ result[1].recommended_action = "continue monitoring" =>
               result[1].critical_alerts = << >>
        /\ CriticalInputAlerts # << >> => result[1].overall_status = "CRITICAL"

\* C29, for the invariant report alone: a CRITICAL alert of the invariant report makes
\* the status CRITICAL and rules out "continue monitoring", and critical_alerts holds
\* the CRITICAL alerts of both reports.
C29_InvariantAlertsOnly ==
    DriftReturned("write_summary_report") =>
        LET critical(a) == a.level = CRITICAL
        IN  /\ SelectSeq(arguments.invariant.alerts, critical) # << >> =>
                  /\ result[1].overall_status = "CRITICAL"
                  /\ result[1].recommended_action # "continue monitoring"
            /\ result[1].critical_alerts = CriticalInputAlerts

\* A drift report with the CRITICAL arousal alerts beside an invariant report without
\* alert and a canary PASS: HEALTHY, "continue monitoring", critical_alerts not empty.
C29_WitnessDriftAlert ==
    /\ DriftReturned("write_summary_report")
    /\ arguments.invariant.alerts = << >>
    /\ arguments.canary.action = PASS
    /\ result[1].overall_status = "HEALTHY"
    /\ result[1].recommended_action = "continue monitoring"
    /\ Len(result[1].critical_alerts) = 2

\* C30: mark_reviewed with an id carried by no item returns False and changes
\* nothing; with an id carried by at least one item it returns True and sets the
\* state and the notes of the first item, in insertion order, that carries the id,
\* and of no other item, a later item with the same id included.
C30_MarkReviewedFrame ==
    [][ (lastCall' # << >> /\ lastCall'[1].op = "mark_reviewed") =>
            LET call == lastCall'[1]
                carriers == { i \in 1..Len(items) : items[i].id = call.item_id }
            IN  /\ Len(items') = Len(items)
                /\ now' = now
                /\ IF carriers = {}
                   THEN /\ call.returned = << FALSE >>
                        /\ items' = items
                   ELSE /\ call.returned = << TRUE >>
                        /\ \A i \in 1..Len(items) :
                              IF i \in carriers /\ \A j \in carriers : i <= j
                              THEN /\ items'[i].state =
                                          (IF call.approved THEN APPROVED ELSE REJECTED)
                                   /\ items'[i].notes = "ok"
                                   /\ items'[i].id = items[i].id
                                   /\ items'[i].severity = items[i].severity
                                   /\ items'[i].confidence = items[i].confidence
                                   /\ items'[i].created_at = items[i].created_at
                              ELSE items'[i] = items[i] ]_vars

\* mark_reviewed has written to the first of two items that carry its id; the later
\* one is still PENDING, without notes.
C30_Witness ==
    /\ LastOp = "mark_reviewed"
    /\ lastCall[1].returned = << TRUE >>
    /\ \E i, j \in 1..Len(items) :
          /\ i < j
          /\ items[i].id = lastCall[1].item_id
          /\ items[j].id = lastCall[1].item_id
          /\ items[i].state \in { APPROVED, REJECTED }
          /\ items[i].notes = "ok"
          /\ items[j].state = PENDING
          /\ items[j].notes = ""

\* mark_reviewed has been called with an id that no item of a queue of three carries.
C30_WitnessUnknownId ==
    /\ LastOp = "mark_reviewed"
    /\ lastCall[1].returned = << FALSE >>
    /\ Len(items) = 3

====
